---- MODULE Spec2Model ----
(***************************************************************************)
(* Model of the raster-image engine (rtextures: pixel codec, format        *)
(* conversion, crop / resize / canvas, compositing, drawing primitives,    *)
(* colour math) bundled with the attack-breaker game.                      *)
(*                                                                         *)
(* Conventions                                                             *)
(*  - An image buffer is a sequence of bytes (0..255).  16-bit pixels and  *)
(*    32-bit floats are laid out little-endian, as on the x86 / ARM / wasm *)
(*    targets the game is built for.                                       *)
(*  - NULL is the empty byte sequence.                                     *)
(*  - A float is carried as its IEEE-754 binary32 bit pattern (a natural   *)
(*    number below 2^31, sign bit clear).  F32Mul, F32Add, F32DivInt round *)
(*    to nearest-even after every single operation, which is what the C    *)
(*    float expressions of the source do when each operation is evaluated  *)
(*    in binary32 (FLT_EVAL_METHOD 0, no contraction).                     *)
(*  - Rectangles are integer valued: every coordinate used by the model is *)
(*    exactly representable as a C float.                                  *)
(***************************************************************************)
EXTENDS Integers, Sequences, FiniteSets, TLC

VARIABLES sz,      \* GetPixelDataSize call: arguments and result
          px,      \* one pixel in memory and one Color: GetPixelColor / SetPixelColor
          bl,      \* ColorAlphaBlend call: arguments and result
          image,   \* the Image an image operation works on (passed by pointer)
          old,     \* the Image as it was before each operation applied so far
          ops,     \* the operations applied so far, with their arguments
          ub,      \* TRUE once an operation accessed memory out of bounds or divided by zero
          heap,    \* the allocations, and the statements of an operation that touch them, one run per step
          game     \* the locals of the game's main(), and the inputs of the current frame

vars == <<sz, px, bl, image, old, ops, ub, heap, game>>

\* ------------------------------------------------------------------------
\* Bounds of the model
\* ------------------------------------------------------------------------
MaxSide == 5       \* GetPixelDataSize is called with width, height in 1..MaxSide
MaxDim == 2        \* images are at most MaxDim x MaxDim pixels
MaxOps == 2        \* an image undergoes at most MaxOps operations
MaxCropSide == 3   \* images that are cropped are at most MaxCropSide x MaxCropSide pixels
MaxFrames == 100   \* the game is followed for MaxFrames frames of play
MaxRand == 3       \* rand() returns 0..MaxRand
MaxTurns == 6      \* a bounce starts at most MaxTurns quarter turns from PI/3

\* ------------------------------------------------------------------------
\* PixelFormat enumeration (raylib.h)
\* ------------------------------------------------------------------------
PIXELFORMAT_UNCOMPRESSED_GRAYSCALE == 1
PIXELFORMAT_UNCOMPRESSED_GRAY_ALPHA == 2
PIXELFORMAT_UNCOMPRESSED_R5G6B5 == 3
PIXELFORMAT_UNCOMPRESSED_R8G8B8 == 4
PIXELFORMAT_UNCOMPRESSED_R5G5B5A1 == 5
PIXELFORMAT_UNCOMPRESSED_R4G4B4A4 == 6
PIXELFORMAT_UNCOMPRESSED_R8G8B8A8 == 7
PIXELFORMAT_UNCOMPRESSED_R32 == 8
PIXELFORMAT_UNCOMPRESSED_R32G32B32 == 9
PIXELFORMAT_UNCOMPRESSED_R32G32B32A32 == 10
PIXELFORMAT_COMPRESSED_DXT1_RGB == 11
PIXELFORMAT_COMPRESSED_DXT1_RGBA == 12
PIXELFORMAT_COMPRESSED_DXT3_RGBA == 13
PIXELFORMAT_COMPRESSED_DXT5_RGBA == 14
PIXELFORMAT_COMPRESSED_ETC1_RGB == 15
PIXELFORMAT_COMPRESSED_ETC2_RGB == 16
PIXELFORMAT_COMPRESSED_ETC2_EAC_RGBA == 17
PIXELFORMAT_COMPRESSED_PVRT_RGB == 18
PIXELFORMAT_COMPRESSED_PVRT_RGBA == 19
PIXELFORMAT_COMPRESSED_ASTC_4x4_RGBA == 20
PIXELFORMAT_COMPRESSED_ASTC_8x8_RGBA == 21

\* Threshold over 255 to set the R5G5B5A1 alpha bit
PIXELFORMAT_UNCOMPRESSED_R5G5B5A1_ALPHA_THRESHOLD == 50

UncompressedFormats == PIXELFORMAT_UNCOMPRESSED_GRAYSCALE..PIXELFORMAT_UNCOMPRESSED_R32G32B32A32
CompressedFormats == PIXELFORMAT_COMPRESSED_DXT1_RGB..PIXELFORMAT_COMPRESSED_ASTC_8x8_RGBA
PixelFormats == UncompressedFormats \cup CompressedFormats

NULL == <<>>

\* ------------------------------------------------------------------------
\* C integer helpers
\* ------------------------------------------------------------------------
\* (unsigned char)n for an unsigned n
U8(n) == n % 256

\* (unsigned short)n for an unsigned n
U16(n) == n % 65536

\* n >> k and n << k on unsigned values
Shr(n, k) == n \div (2^k)
Shl(n, k) == n * (2^k)

Max(a, b) == IF a > b THEN a ELSE b
Min(a, b) == IF a < b THEN a ELSE b

\* low k bits of n (n & ((1 << k) - 1))
LowBits(n, k) == n % (2^k)

\* C integer division truncates toward zero
CDiv(a, b) == IF a >= 0 THEN a \div b ELSE -((-a) \div b)

\* ------------------------------------------------------------------------
\* IEEE-754 binary32 arithmetic on non-negative normal numbers and zero
\* ------------------------------------------------------------------------
F32Exp(f) == f \div 8388608
F32Man(f) == 8388608 + (f % 8388608)
F32IsZero(f) == F32Exp(f) = 0

\* assemble a float from a 24-bit significand m (2^23 <= m < 2^24) and a biased exponent e
F32Pack(m, e) == e * 8388608 + (m - 8388608)

\* round the significand m, with discarded part rem out of unit, to nearest-even
F32RoundPack(m, e, rem, unit) ==
    LET up == (2 * rem > unit) \/ (2 * rem = unit /\ m % 2 = 1)
        m1 == IF up THEN m + 1 ELSE m
    IN  IF m1 = 16777216 THEN F32Pack(8388608, e + 1) ELSE F32Pack(m1, e)

\* a * b
F32Mul(a, b) ==
    IF F32IsZero(a) \/ F32IsZero(b) THEN 0
    ELSE LET ma == F32Man(a)
             mb == F32Man(b)
             ah == ma \div 4096
             al == ma % 4096
             bh == mb \div 4096
             bl0 == mb % 4096
             mid == ah * bl0 + al * bh
             lo == al * bl0 + (mid % 4096) * 4096
             hi == ah * bh + (mid \div 4096) + (lo \div 16777216)
             low == lo % 16777216
             e == F32Exp(a) + F32Exp(b) - 127
         IN  IF hi >= 8388608
             THEN F32RoundPack(hi, e + 1, low, 16777216)
             ELSE F32RoundPack(2 * hi + (low \div 8388608), e, low % 8388608, 8388608)

\* a + b
F32Add(a, b) ==
    IF F32IsZero(a) THEN b
    ELSE IF F32IsZero(b) THEN a
    ELSE LET x == IF a >= b THEN a ELSE b
             y == IF a >= b THEN b ELSE a
             d == F32Exp(x) - F32Exp(y)
         IN  IF d >= 25 THEN x
             ELSE LET unit == 2^d
                      q == F32Man(y) \div unit
                      r == F32Man(y) % unit
                      s == F32Man(x) + q
                  IN  IF s < 16777216
                      THEN F32RoundPack(s, F32Exp(x), r, unit)
                      ELSE F32RoundPack(s \div 2, F32Exp(x) + 1, (s % 2) * unit + r, 2 * unit)

\* binary long division: shift quotient bits in until the significand has 24 bits
RECURSIVE F32DivBits(_, _, _, _)
F32DivBits(q, r, d, k) ==
    IF q >= 8388608 THEN F32RoundPack(q, 150 - k, r, d)
    ELSE IF 2 * r >= d THEN F32DivBits(2 * q + 1, 2 * r - d, d, k + 1)
    ELSE F32DivBits(2 * q, 2 * r, d, k + 1)

\* (float)n/(float)d for integers 0 <= n < 2^23, 0 < d < 2^23
F32DivInt(n, d) == IF n = 0 THEN 0 ELSE F32DivBits(n \div d, n % d, d, 0)

\* (float)n for an integer 0 <= n < 2^23
F32FromInt(n) == F32DivInt(n, 1)

\* (int)f: conversion to integer truncates
F32Trunc(f) ==
    IF F32IsZero(f) THEN 0
    ELSE LET s == 150 - F32Exp(f)
         IN  IF s > 24 THEN 0
             ELSE IF s >= 0 THEN F32Man(f) \div (2^s)
             ELSE F32Man(f) * (2^(-s))

\* round(f): nearest integer, halfway cases away from zero
F32Round(f) ==
    IF F32IsZero(f) THEN 0
    ELSE LET s == 150 - F32Exp(f)
         IN  IF s > 24 THEN 0
             ELSE IF s > 0
                  THEN (F32Man(f) \div (2^s)) + (IF 2 * (F32Man(f) % (2^s)) >= 2^s THEN 1 ELSE 0)
             ELSE F32Man(f) * (2^(-s))

\* a > b on non-negative floats
F32Gt(a, b) == a > b

\* float literals of the source: a decimal literal is the float nearest to it
F32_0_299 == F32DivInt(299, 1000)   \* 0.299f
F32_0_587 == F32DivInt(587, 1000)   \* 0.587f
F32_0_114 == F32DivInt(114, 1000)   \* 0.114f
F32_1_0 == F32FromInt(1)            \* 1.0f
F32_255 == F32FromInt(255)     \* 255.0f
F32_31 == F32FromInt(31)       \* 31.0f
F32_63 == F32FromInt(63)       \* 63.0f
F32_15 == F32FromInt(15)       \* 15.0f

\* the four bytes of a float in memory, and back
F32Bytes(f) == << f % 256, (f \div 256) % 256, (f \div 65536) % 256, f \div 16777216 >>
F32At(data, i) == data[i] + 256 * data[i + 1] + 65536 * data[i + 2] + 16777216 * data[i + 3]

\* the two bytes of an unsigned short in memory, and back
U16Bytes(p) == << p % 256, p \div 256 >>
U16At(data, i) == data[i] + 256 * data[i + 1]

\* ------------------------------------------------------------------------
\* GetPixelDataSize
\* ------------------------------------------------------------------------
\* bits per pixel selected by the switch
BitsPerPixel(format) ==
    CASE format = PIXELFORMAT_UNCOMPRESSED_GRAYSCALE -> 8
      [] format \in {PIXELFORMAT_UNCOMPRESSED_GRAY_ALPHA, PIXELFORMAT_UNCOMPRESSED_R5G6B5,
                     PIXELFORMAT_UNCOMPRESSED_R5G5B5A1, PIXELFORMAT_UNCOMPRESSED_R4G4B4A4} -> 16
      [] format = PIXELFORMAT_UNCOMPRESSED_R8G8B8A8 -> 32
      [] format = PIXELFORMAT_UNCOMPRESSED_R8G8B8 -> 24
      [] format = PIXELFORMAT_UNCOMPRESSED_R32 -> 32
      [] format = PIXELFORMAT_UNCOMPRESSED_R32G32B32 -> 32 * 3
      [] format = PIXELFORMAT_UNCOMPRESSED_R32G32B32A32 -> 32 * 4
      [] format \in {PIXELFORMAT_COMPRESSED_DXT1_RGB, PIXELFORMAT_COMPRESSED_DXT1_RGBA,
                     PIXELFORMAT_COMPRESSED_ETC1_RGB, PIXELFORMAT_COMPRESSED_ETC2_RGB,
                     PIXELFORMAT_COMPRESSED_PVRT_RGB, PIXELFORMAT_COMPRESSED_PVRT_RGBA} -> 4
      [] format \in {PIXELFORMAT_COMPRESSED_DXT3_RGBA, PIXELFORMAT_COMPRESSED_DXT5_RGBA,
                     PIXELFORMAT_COMPRESSED_ETC2_EAC_RGBA, PIXELFORMAT_COMPRESSED_ASTC_4x4_RGBA} -> 8
      [] format = PIXELFORMAT_COMPRESSED_ASTC_8x8_RGBA -> 2
      [] OTHER -> 0

GetPixelDataSize(width, height, format) ==
    LET dataSize == CDiv(width * height * BitsPerPixel(format), 8)
    IN  IF (width < 4) /\ (height < 4)
        THEN IF (format >= PIXELFORMAT_COMPRESSED_DXT1_RGB) /\ (format < PIXELFORMAT_COMPRESSED_DXT3_RGBA)
             THEN 8
             ELSE IF (format >= PIXELFORMAT_COMPRESSED_DXT3_RGBA) /\ (format < PIXELFORMAT_COMPRESSED_ASTC_8x8_RGBA)
             THEN 16
             ELSE dataSize
        ELSE dataSize

\* ------------------------------------------------------------------------
\* Color and the pixel codec: GetPixelColor / SetPixelColor
\* ------------------------------------------------------------------------
Color(r, g, b, a) == [r |-> r, g |-> g, b |-> b, a |-> a]
WHITE == Color(255, 255, 255, 255)
BLANK == Color(0, 0, 0, 0)

\* (unsigned char)(f*255.0f)
F32ToByte(f) == U8(F32Trunc(F32Mul(f, F32_255)))

\* GetPixelColor(srcPtr, format): mem holds the bytes at srcPtr
GetPixelColor(mem, format) ==
    CASE format = PIXELFORMAT_UNCOMPRESSED_GRAYSCALE -> Color(mem[1], mem[1], mem[1], 255)
      [] format = PIXELFORMAT_UNCOMPRESSED_GRAY_ALPHA -> Color(mem[1], mem[1], mem[1], mem[2])
      [] format = PIXELFORMAT_UNCOMPRESSED_R5G6B5 ->
            LET p == U16At(mem, 1)
            IN  Color(U8((Shr(p, 11) * 255) \div 31),
                      U8((LowBits(Shr(p, 5), 6) * 255) \div 63),
                      U8((LowBits(p, 5) * 255) \div 31),
                      255)
      [] format = PIXELFORMAT_UNCOMPRESSED_R5G5B5A1 ->
            LET p == U16At(mem, 1)
            IN  Color(U8((Shr(p, 11) * 255) \div 31),
                      U8((LowBits(Shr(p, 6), 5) * 255) \div 31),
                      U8((LowBits(p, 5) * 255) \div 31),
                      IF LowBits(p, 1) # 0 THEN 255 ELSE 0)
      [] format = PIXELFORMAT_UNCOMPRESSED_R4G4B4A4 ->
            LET p == U16At(mem, 1)
            IN  Color(U8((Shr(p, 12) * 255) \div 15),
                      U8((LowBits(Shr(p, 8), 4) * 255) \div 15),
                      U8((LowBits(Shr(p, 4), 4) * 255) \div 15),
                      U8((LowBits(p, 4) * 255) \div 15))
      [] format = PIXELFORMAT_UNCOMPRESSED_R8G8B8A8 -> Color(mem[1], mem[2], mem[3], mem[4])
      [] format = PIXELFORMAT_UNCOMPRESSED_R8G8B8 -> Color(mem[1], mem[2], mem[3], 255)
      [] format = PIXELFORMAT_UNCOMPRESSED_R32 ->
            Color(F32ToByte(F32At(mem, 1)), F32ToByte(F32At(mem, 1)), F32ToByte(F32At(mem, 1)), 255)
      [] format = PIXELFORMAT_UNCOMPRESSED_R32G32B32 ->
            Color(F32ToByte(F32At(mem, 1)), F32ToByte(F32At(mem, 5)), F32ToByte(F32At(mem, 9)), 255)
      [] format = PIXELFORMAT_UNCOMPRESSED_R32G32B32A32 ->
            Color(F32ToByte(F32At(mem, 1)), F32ToByte(F32At(mem, 5)),
                  F32ToByte(F32At(mem, 9)), F32ToByte(F32At(mem, 13)))
      [] OTHER -> BLANK

\* (float)c/255.0f
NormalizedByte == [c \in 0..255 |-> F32DivInt(c, 255)]
Normalize(c) == NormalizedByte[c]

\* (unsigned char)((coln.x*0.299f + coln.y*0.587f + coln.z*0.114f)*255.0f)
GrayOf(x, y, z) ==
    U8(F32Trunc(F32Mul(F32Add(F32Add(F32Mul(x, F32_0_299), F32Mul(y, F32_0_587)),
                              F32Mul(z, F32_0_114)),
                       F32_255)))

\* mutant: the scaled channel is truncated instead of rounded
QuantizeTruncates(x, scale) == U8(F32Trunc(F32Mul(x, scale)))

\* (unsigned char)(round(x*scale))
Quantize(x, scale) == U8(F32Round(F32Mul(x, scale)))

\* (coln.w > ((float)PIXELFORMAT_UNCOMPRESSED_R5G5B5A1_ALPHA_THRESHOLD/255.0f))? 1 : 0
AlphaThreshold == F32DivInt(PIXELFORMAT_UNCOMPRESSED_R5G5B5A1_ALPHA_THRESHOLD, 255)
AlphaBit(w) == IF F32Gt(w, AlphaThreshold) THEN 1 ELSE 0

\* the three 16-bit packings
Pack565(r, g, b) == U16(Shl(r, 11) + Shl(g, 5) + b)
Pack5551(r, g, b, a) == U16(Shl(r, 11) + Shl(g, 6) + Shl(b, 1) + a)
Pack4444(r, g, b, a) == U16(Shl(r, 12) + Shl(g, 8) + Shl(b, 4) + a)

\* SetPixelColor(dstPtr, color, format): mem holds the bytes of the pixel at
\* dstPtr, the result is what they hold afterwards
SetPixelColor(mem, color, format) ==
    CASE format = PIXELFORMAT_UNCOMPRESSED_GRAYSCALE ->
            << GrayOf(Normalize(color.r), Normalize(color.g), Normalize(color.b)) >>
      [] format = PIXELFORMAT_UNCOMPRESSED_GRAY_ALPHA ->
            << GrayOf(Normalize(color.r), Normalize(color.g), Normalize(color.b)), color.a >>
      [] format = PIXELFORMAT_UNCOMPRESSED_R5G6B5 ->
            U16Bytes(Pack565(Quantize(Normalize(color.r), F32_31),
                             Quantize(Normalize(color.g), F32_63),
                             Quantize(Normalize(color.b), F32_31)))
      [] format = PIXELFORMAT_UNCOMPRESSED_R5G5B5A1 ->
            U16Bytes(Pack5551(Quantize(Normalize(color.r), F32_31),
                              Quantize(Normalize(color.g), F32_31),
                              Quantize(Normalize(color.b), F32_31),
                              AlphaBit(Normalize(color.a))))
      [] format = PIXELFORMAT_UNCOMPRESSED_R4G4B4A4 ->
            U16Bytes(Pack4444(Quantize(Normalize(color.r), F32_15),
                              Quantize(Normalize(color.g), F32_15),
                              Quantize(Normalize(color.b), F32_15),
                              Quantize(Normalize(color.a), F32_15)))
      [] format = PIXELFORMAT_UNCOMPRESSED_R8G8B8 -> << color.r, color.g, color.b >>
      [] format = PIXELFORMAT_UNCOMPRESSED_R8G8B8A8 -> << color.r, color.g, color.b, color.a >>
      [] OTHER -> mem

\* ------------------------------------------------------------------------
\* ColorAlphaBlend (COLORALPHABLEND_INTEGERS)
\* ------------------------------------------------------------------------
\* (unsigned char)(((unsigned int)c*((unsigned int)t + 1)) >> 8)
TintChannel(c, t) == U8(Shr(c * (t + 1), 8))

\* Apply color tint to source color
Tinted(src, tint) ==
    Color(TintChannel(src.r, tint.r), TintChannel(src.g, tint.g),
          TintChannel(src.b, tint.b), TintChannel(src.a, tint.a))

\* (unsigned char)(((srcC*alpha*256 + dstC*dstA*(256 - alpha))/outA) >> 8)
BlendChannel(srcC, dstC, dstA, alpha, outA) ==
    U8(Shr((srcC * alpha * 256 + dstC * dstA * (256 - alpha)) \div outA, 8))

\* mutant: the blend weight is src.a instead of src.a + 1
ColorAlphaBlendNoExcess(dst, src0, tint) ==
    LET src == Tinted(src0, tint)
    IN  IF src.a = 0 THEN dst
        ELSE IF src.a = 255 THEN src
        ELSE LET alpha == src.a
                 outA == U8(Shr(alpha * 256 + dst.a * (256 - alpha), 8))
             IN  IF outA > 0
                 THEN Color(BlendChannel(src.r, dst.r, dst.a, alpha, outA),
                            BlendChannel(src.g, dst.g, dst.a, alpha, outA),
                            BlendChannel(src.b, dst.b, dst.a, alpha, outA), outA)
                 ELSE Color(255, 255, 255, outA)

\* mutant: the tint is not applied to the source colour channels
ColorAlphaBlendNoTint(dst, src0, tint) ==
    LET src == Color(src0.r, src0.g, src0.b, TintChannel(src0.a, tint.a))
    IN  IF src.a = 0 THEN dst
        ELSE IF src.a = 255 THEN src
        ELSE LET alpha == src.a + 1
                 outA == U8(Shr(alpha * 256 + dst.a * (256 - alpha), 8))
             IN  IF outA > 0
                 THEN Color(BlendChannel(src.r, dst.r, dst.a, alpha, outA),
                            BlendChannel(src.g, dst.g, dst.a, alpha, outA),
                            BlendChannel(src.b, dst.b, dst.a, alpha, outA), outA)
                 ELSE Color(255, 255, 255, outA)

\* ColorAlphaBlend(dst, src, tint); out starts as WHITE
ColorAlphaBlend(dst, src0, tint) ==
    LET src == Tinted(src0, tint)
    IN  IF src.a = 0 THEN dst
        ELSE IF src.a = 255 THEN src
        ELSE LET alpha == src.a + 1
                 outA == U8(Shr(alpha * 256 + dst.a * (256 - alpha), 8))
             IN  IF outA > 0
                 THEN Color(BlendChannel(src.r, dst.r, dst.a, alpha, outA),
                            BlendChannel(src.g, dst.g, dst.a, alpha, outA),
                            BlendChannel(src.b, dst.b, dst.a, alpha, outA), outA)
                 ELSE Color(255, 255, 255, outA)

\* ------------------------------------------------------------------------
\* Image: { data, width, height, mipmaps, format }
\* ------------------------------------------------------------------------
Image(data, width, height, format, mipmaps) ==
    [data |-> data, width |-> width, height |-> height, format |-> format, mipmaps |-> mipmaps]

\* the security check that opens every image operation
IsEmptyImage(img) == (img.data = NULL) \/ (img.width = 0) \/ (img.height = 0)

\* n bytes starting at byte offset off of a buffer
BytesAt(data, off, n) == [j \in 1..n |-> data[off + j]]

\* the bytes of per-pixel byte sequences laid out one after the other
Flatten(pix, n, bpp) == [j \in 1..(n * bpp) |-> pix[((j - 1) \div bpp) + 1][((j - 1) % bpp) + 1]]

\* size in bytes of an image with all its mipmap levels (the loop of ImageCopy)
RECURSIVE MipChainSize(_, _, _, _)
MipChainSize(width, height, format, mipmaps) ==
    IF mipmaps <= 0 THEN 0
    ELSE GetPixelDataSize(width, height, format)
         + MipChainSize(IF width \div 2 < 1 THEN 1 ELSE width \div 2,
                        IF height \div 2 < 1 THEN 1 ELSE height \div 2, format, mipmaps - 1)

\* ------------------------------------------------------------------------
\* LoadImageDataNormalized: pixel data as Vector4 (float normalized)
\* ------------------------------------------------------------------------
Vector4(x, y, z, w) == [x |-> x, y |-> y, z |-> z, w |-> w]

\* (float)v*(1.0f/max)
Reciprocal == [max \in {15, 31, 63} |-> F32DivInt(1, max)]
NormalizeBits(v, max) == F32Mul(F32FromInt(v), Reciprocal[max])

\* elements the running index k advances by per pixel, for the formats that use k
LoadStepK(format) ==
    CASE format = PIXELFORMAT_UNCOMPRESSED_GRAY_ALPHA -> 2
      [] format = PIXELFORMAT_UNCOMPRESSED_R8G8B8A8 -> 4
      [] format = PIXELFORMAT_UNCOMPRESSED_R8G8B8 -> 3
      [] format = PIXELFORMAT_UNCOMPRESSED_R32 -> 0
      [] format = PIXELFORMAT_UNCOMPRESSED_R32G32B32 -> 3
      [] format = PIXELFORMAT_UNCOMPRESSED_R32G32B32A32 -> 4
      [] OTHER -> 0

\* pixels[i] of LoadImageDataNormalized for an uncompressed image
NormalizedPixel(img, i) ==
    LET data == img.data
        k == i * LoadStepK(img.format)
    IN  CASE img.format = PIXELFORMAT_UNCOMPRESSED_GRAYSCALE ->
                Vector4(Normalize(data[i + 1]), Normalize(data[i + 1]), Normalize(data[i + 1]), F32_1_0)
          [] img.format = PIXELFORMAT_UNCOMPRESSED_GRAY_ALPHA ->
                Vector4(Normalize(data[k + 1]), Normalize(data[k + 1]), Normalize(data[k + 1]),
                        Normalize(data[k + 2]))
          [] img.format = PIXELFORMAT_UNCOMPRESSED_R5G5B5A1 ->
                LET pixel == U16At(data, 2 * i + 1)
                IN  Vector4(NormalizeBits(Shr(pixel, 11), 31), NormalizeBits(LowBits(Shr(pixel, 6), 5), 31),
                            NormalizeBits(LowBits(Shr(pixel, 1), 5), 31),
                            IF LowBits(pixel, 1) = 0 THEN 0 ELSE F32_1_0)
          [] img.format = PIXELFORMAT_UNCOMPRESSED_R5G6B5 ->
                LET pixel == U16At(data, 2 * i + 1)
                IN  Vector4(NormalizeBits(Shr(pixel, 11), 31), NormalizeBits(LowBits(Shr(pixel, 5), 6), 63),
                            NormalizeBits(LowBits(pixel, 5), 31), F32_1_0)
          [] img.format = PIXELFORMAT_UNCOMPRESSED_R4G4B4A4 ->
                LET pixel == U16At(data, 2 * i + 1)
                IN  Vector4(NormalizeBits(Shr(pixel, 12), 15), NormalizeBits(LowBits(Shr(pixel, 8), 4), 15),
                            NormalizeBits(LowBits(Shr(pixel, 4), 4), 15), NormalizeBits(LowBits(pixel, 4), 15))
          [] img.format = PIXELFORMAT_UNCOMPRESSED_R8G8B8A8 ->
                Vector4(Normalize(data[k + 1]), Normalize(data[k + 2]), Normalize(data[k + 3]),
                        Normalize(data[k + 4]))
          [] img.format = PIXELFORMAT_UNCOMPRESSED_R8G8B8 ->
                Vector4(Normalize(data[k + 1]), Normalize(data[k + 2]), Normalize(data[k + 3]), F32_1_0)
          [] img.format = PIXELFORMAT_UNCOMPRESSED_R32 ->
                Vector4(F32At(data, 4 * k + 1), 0, 0, F32_1_0)
          [] img.format = PIXELFORMAT_UNCOMPRESSED_R32G32B32 ->
                Vector4(F32At(data, 4 * k + 1), F32At(data, 4 * (k + 1) + 1), F32At(data, 4 * (k + 2) + 1),
                        F32_1_0)
          [] img.format = PIXELFORMAT_UNCOMPRESSED_R32G32B32A32 ->
                Vector4(F32At(data, 4 * k + 1), F32At(data, 4 * (k + 1) + 1), F32At(data, 4 * (k + 2) + 1),
                        F32At(data, 4 * (k + 3) + 1))
          [] OTHER -> Vector4(0, 0, 0, 0)

LoadImageDataNormalized(img) == [i \in 1..(img.width * img.height) |-> NormalizedPixel(img, i - 1)]

\* ------------------------------------------------------------------------
\* ImageFormat: convert image data to desired format
\* ------------------------------------------------------------------------
\* x*0.299f + y*0.587f + z*0.114f
Luma(v) == F32Add(F32Add(F32Mul(v.x, F32_0_299), F32Mul(v.y, F32_0_587)), F32Mul(v.z, F32_0_114))

\* the bytes one normalized pixel is written as in the new format
FormatPixel(v, format) ==
    CASE format = PIXELFORMAT_UNCOMPRESSED_GRAYSCALE -> << GrayOf(v.x, v.y, v.z) >>
      [] format = PIXELFORMAT_UNCOMPRESSED_GRAY_ALPHA -> << GrayOf(v.x, v.y, v.z), F32ToByte(v.w) >>
      [] format = PIXELFORMAT_UNCOMPRESSED_R5G6B5 ->
            U16Bytes(Pack565(Quantize(v.x, F32_31), Quantize(v.y, F32_63), Quantize(v.z, F32_31)))
      [] format = PIXELFORMAT_UNCOMPRESSED_R8G8B8 -> << F32ToByte(v.x), F32ToByte(v.y), F32ToByte(v.z) >>
      [] format = PIXELFORMAT_UNCOMPRESSED_R5G5B5A1 ->
            U16Bytes(Pack5551(Quantize(v.x, F32_31), Quantize(v.y, F32_31), Quantize(v.z, F32_31),
                              AlphaBit(v.w)))
      [] format = PIXELFORMAT_UNCOMPRESSED_R4G4B4A4 ->
            U16Bytes(Pack4444(Quantize(v.x, F32_15), Quantize(v.y, F32_15), Quantize(v.z, F32_15),
                              Quantize(v.w, F32_15)))
      [] format = PIXELFORMAT_UNCOMPRESSED_R8G8B8A8 ->
            << F32ToByte(v.x), F32ToByte(v.y), F32ToByte(v.z), F32ToByte(v.w) >>
      [] format = PIXELFORMAT_UNCOMPRESSED_R32 -> F32Bytes(Luma(v))
      [] format = PIXELFORMAT_UNCOMPRESSED_R32G32B32 -> F32Bytes(v.x) \o F32Bytes(v.y) \o F32Bytes(v.z)
      [] format = PIXELFORMAT_UNCOMPRESSED_R32G32B32A32 ->
            F32Bytes(v.x) \o F32Bytes(v.y) \o F32Bytes(v.z) \o F32Bytes(v.w)
      [] OTHER -> <<>>

\* bytes per pixel of the buffer each case of the switch allocates
FormatPixelSize(format) ==
    CASE format = PIXELFORMAT_UNCOMPRESSED_GRAYSCALE -> 1
      [] format = PIXELFORMAT_UNCOMPRESSED_GRAY_ALPHA -> 2
      [] format \in {PIXELFORMAT_UNCOMPRESSED_R5G6B5, PIXELFORMAT_UNCOMPRESSED_R5G5B5A1,
                     PIXELFORMAT_UNCOMPRESSED_R4G4B4A4} -> 2
      [] format = PIXELFORMAT_UNCOMPRESSED_R8G8B8 -> 3
      [] format = PIXELFORMAT_UNCOMPRESSED_R8G8B8A8 -> 4
      [] format = PIXELFORMAT_UNCOMPRESSED_R32 -> 4
      [] format = PIXELFORMAT_UNCOMPRESSED_R32G32B32 -> 3 * 4
      [] format = PIXELFORMAT_UNCOMPRESSED_R32G32B32A32 -> 4 * 4
      [] OTHER -> 0

\* mutant: the conversion runs even when the new format is the current one
ImageFormatAlwaysConverts(img, newFormat) ==
    IF IsEmptyImage(img) THEN img
    ELSE IF newFormat # 0
    THEN IF (img.format < PIXELFORMAT_COMPRESSED_DXT1_RGB) /\ (newFormat < PIXELFORMAT_COMPRESSED_DXT1_RGB)
         THEN LET pixels == LoadImageDataNormalized(img)
                  n == img.width * img.height
                  out == [i \in 1..n |-> FormatPixel(pixels[i], newFormat)]
              IN  Image(Flatten(out, n, FormatPixelSize(newFormat)), img.width, img.height, newFormat,
                        IF img.mipmaps > 1 THEN 1 ELSE img.mipmaps)
         ELSE img
    ELSE img

ImageFormat(img, newFormat) ==
    IF IsEmptyImage(img) THEN img
    ELSE IF (newFormat # 0) /\ (img.format # newFormat)
    THEN IF (img.format < PIXELFORMAT_COMPRESSED_DXT1_RGB) /\ (newFormat < PIXELFORMAT_COMPRESSED_DXT1_RGB)
         THEN LET pixels == LoadImageDataNormalized(img)
                  n == img.width * img.height
                  out == [i \in 1..n |-> FormatPixel(pixels[i], newFormat)]
              IN  Image(Flatten(out, n, FormatPixelSize(newFormat)), img.width, img.height, newFormat,
                        IF img.mipmaps > 1 THEN 1 ELSE img.mipmaps)
         ELSE img
    ELSE img

\* ------------------------------------------------------------------------
\* LoadImageColors: pixel data as Color (RGBA 8 bit per channel)
\* ------------------------------------------------------------------------
\* what an operation hands back: the image it leaves, and whether it ran into
\* undefined behaviour (out-of-bounds access, division by zero)
Result(img, undefined) == [image |-> img, ub |-> undefined]

\* byte values a read of uninitialised or out-of-bounds memory may give
Garbage == {0, 205}

\* pixels[i] of LoadImageColors; a compressed image leaves the malloc'ed
\* array uninitialised (garbage is what such a byte reads as)
LoadedColor(img, i, garbage) ==
    LET data == img.data
        k == i * LoadStepK(img.format)
    IN  CASE img.format = PIXELFORMAT_UNCOMPRESSED_GRAYSCALE ->
                Color(data[i + 1], data[i + 1], data[i + 1], 255)
          [] img.format = PIXELFORMAT_UNCOMPRESSED_GRAY_ALPHA ->
                Color(data[k + 1], data[k + 1], data[k + 1], data[k + 2])
          [] img.format = PIXELFORMAT_UNCOMPRESSED_R5G5B5A1 ->
                LET pixel == U16At(data, 2 * i + 1)
                IN  Color(U8(Shr(pixel, 11) * (255 \div 31)), U8(LowBits(Shr(pixel, 6), 5) * (255 \div 31)),
                          U8(LowBits(Shr(pixel, 1), 5) * (255 \div 31)), U8(LowBits(pixel, 1) * 255))
          [] img.format = PIXELFORMAT_UNCOMPRESSED_R5G6B5 ->
                LET pixel == U16At(data, 2 * i + 1)
                IN  Color(U8(Shr(pixel, 11) * (255 \div 31)), U8(LowBits(Shr(pixel, 5), 6) * (255 \div 63)),
                          U8(LowBits(pixel, 5) * (255 \div 31)), 255)
          [] img.format = PIXELFORMAT_UNCOMPRESSED_R4G4B4A4 ->
                LET pixel == U16At(data, 2 * i + 1)
                IN  Color(U8(Shr(pixel, 12) * (255 \div 15)), U8(LowBits(Shr(pixel, 8), 4) * (255 \div 15)),
                          U8(LowBits(Shr(pixel, 4), 4) * (255 \div 15)), U8(LowBits(pixel, 4) * (255 \div 15)))
          [] img.format = PIXELFORMAT_UNCOMPRESSED_R8G8B8A8 ->
                Color(data[k + 1], data[k + 2], data[k + 3], data[k + 4])
          [] img.format = PIXELFORMAT_UNCOMPRESSED_R8G8B8 ->
                Color(data[k + 1], data[k + 2], data[k + 3], 255)
          [] img.format = PIXELFORMAT_UNCOMPRESSED_R32 ->
                Color(F32ToByte(F32At(data, 4 * k + 1)), 0, 0, 255)
          [] img.format = PIXELFORMAT_UNCOMPRESSED_R32G32B32 ->
                Color(F32ToByte(F32At(data, 4 * k + 1)), F32ToByte(F32At(data, 4 * (k + 1) + 1)),
                      F32ToByte(F32At(data, 4 * (k + 2) + 1)), 255)
          [] img.format = PIXELFORMAT_UNCOMPRESSED_R32G32B32A32 ->
                Color(F32ToByte(F32At(data, 4 * k + 1)), F32ToByte(F32At(data, 4 * k + 1)),
                      F32ToByte(F32At(data, 4 * k + 1)), F32ToByte(F32At(data, 4 * k + 1)))
          [] OTHER -> Color(garbage, garbage, garbage, garbage)

LoadImageColors(img, garbage) ==
    IF (img.width = 0) \/ (img.height = 0) THEN NULL
    ELSE [i \in 1..(img.width * img.height) |-> LoadedColor(img, i - 1, garbage)]

\* ------------------------------------------------------------------------
\* GetImageColor: the Color of pixel (x, y) of an image
\* ------------------------------------------------------------------------
GetImageColor(img, x, y) ==
    LET data == img.data
        p == y * img.width + x
    IN  IF ~((x >= 0) /\ (x < img.width) /\ (y >= 0) /\ (y < img.height)) THEN Color(0, 0, 0, 0)
        ELSE CASE img.format = PIXELFORMAT_UNCOMPRESSED_GRAYSCALE ->
                Color(data[p + 1], data[p + 1], data[p + 1], 255)
          [] img.format = PIXELFORMAT_UNCOMPRESSED_GRAY_ALPHA ->
                Color(data[p * 2 + 1], data[p * 2 + 1], data[p * 2 + 1], data[p * 2 + 2])
          [] img.format = PIXELFORMAT_UNCOMPRESSED_R5G5B5A1 ->
                LET pixel == U16At(data, 2 * p + 1)
                IN  Color(U8(Shr(pixel, 11) * (255 \div 31)), U8(LowBits(Shr(pixel, 6), 5) * (255 \div 31)),
                          U8(LowBits(Shr(pixel, 1), 5) * (255 \div 31)), U8(LowBits(pixel, 1) * 255))
          [] img.format = PIXELFORMAT_UNCOMPRESSED_R5G6B5 ->
                LET pixel == U16At(data, 2 * p + 1)
                IN  Color(U8(Shr(pixel, 11) * (255 \div 31)), U8(LowBits(Shr(pixel, 5), 6) * (255 \div 63)),
                          U8(LowBits(pixel, 5) * (255 \div 31)), 255)
          [] img.format = PIXELFORMAT_UNCOMPRESSED_R4G4B4A4 ->
                LET pixel == U16At(data, 2 * p + 1)
                IN  Color(U8(Shr(pixel, 12) * (255 \div 15)), U8(LowBits(Shr(pixel, 8), 4) * (255 \div 15)),
                          U8(LowBits(Shr(pixel, 4), 4) * (255 \div 15)), U8(LowBits(pixel, 4) * (255 \div 15)))
          [] img.format = PIXELFORMAT_UNCOMPRESSED_R8G8B8A8 ->
                Color(data[p * 4 + 1], data[p * 4 + 2], data[p * 4 + 3], data[p * 4 + 4])
          [] img.format = PIXELFORMAT_UNCOMPRESSED_R8G8B8 ->
                Color(data[p * 3 + 1], data[p * 3 + 2], data[p * 3 + 3], 255)
          [] img.format = PIXELFORMAT_UNCOMPRESSED_R32 ->
                Color(F32ToByte(F32At(data, 4 * p + 1)), 0, 0, 255)
          [] img.format = PIXELFORMAT_UNCOMPRESSED_R32G32B32 ->
                Color(F32ToByte(F32At(data, 4 * (p * 3) + 1)), F32ToByte(F32At(data, 4 * (p * 3 + 1) + 1)),
                      F32ToByte(F32At(data, 4 * (p * 3 + 2) + 1)), 255)
          [] img.format = PIXELFORMAT_UNCOMPRESSED_R32G32B32A32 ->
                Color(F32ToByte(F32At(data, 4 * (p * 4) + 1)), F32ToByte(F32At(data, 4 * (p * 4) + 1)),
                      F32ToByte(F32At(data, 4 * (p * 4) + 1)), F32ToByte(F32At(data, 4 * (p * 4) + 1)))
          [] OTHER -> Color(0, 0, 0, 0)

\* a Color array as the bytes of an R8G8B8A8 buffer
ColorBytes(pixels) ==
    Flatten([i \in 1..Len(pixels) |-> << pixels[i].r, pixels[i].g, pixels[i].b, pixels[i].a >>],
            Len(pixels), 4)

\* ------------------------------------------------------------------------
\* ImageResizeNN: resize an image, nearest-neighbor scaling
\* ------------------------------------------------------------------------
\* index into pixels[] that output[(y*newWidth) + x] is read from
NearestIndex(img, newWidth, newHeight, x, y) ==
    LET xRatio == (Shl(img.width, 16) \div newWidth) + 1
        yRatio == (Shl(img.height, 16) \div newHeight) + 1
    IN  (Shr(y * yRatio, 16) * img.width) + Shr(x * xRatio, 16)

\* the R8G8B8A8 image built from output[], before it is reformatted
ResizedRGBA(img, newWidth, newHeight, garbage) ==
    LET pixels == LoadImageColors(img, garbage)
        output == [i \in 1..(newWidth * newHeight) |->
                      LET idx == NearestIndex(img, newWidth, newHeight,
                                              (i - 1) % newWidth, (i - 1) \div newWidth)
                      IN  IF (idx >= 0) /\ (idx < Len(pixels)) THEN pixels[idx + 1]
                          ELSE Color(garbage, garbage, garbage, garbage)]
    IN  Image(ColorBytes(output), newWidth, newHeight, PIXELFORMAT_UNCOMPRESSED_R8G8B8A8, img.mipmaps)

\* some output pixel is read from beyond pixels[]
ResizeReadsOutside(img, newWidth, newHeight) ==
    \E x \in 0..(newWidth - 1), y \in 0..(newHeight - 1) :
        \/ NearestIndex(img, newWidth, newHeight, x, y) >= img.width * img.height
        \/ NearestIndex(img, newWidth, newHeight, x, y) < 0

\* mutant: the resized image is left in R8G8B8A8
ImageResizeNNKeepsRGBA(img, newWidth, newHeight, garbage) ==
    IF IsEmptyImage(img) THEN Result(img, FALSE)
    ELSE IF (newWidth = 0) \/ (newHeight = 0) THEN Result(img, TRUE)
    ELSE Result(ResizedRGBA(img, newWidth, newHeight, garbage),
                ResizeReadsOutside(img, newWidth, newHeight))

\* newWidth, newHeight >= 0 (a zero divides by zero at xRatio, yRatio)
ImageResizeNN(img, newWidth, newHeight, garbage) ==
    IF IsEmptyImage(img) THEN Result(img, FALSE)
    ELSE IF (newWidth = 0) \/ (newHeight = 0) THEN Result(img, TRUE)
    ELSE Result(ImageFormat(ResizedRGBA(img, newWidth, newHeight, garbage), img.format),
                ResizeReadsOutside(img, newWidth, newHeight))

\* ------------------------------------------------------------------------
\* ImageCrop: crop an image to area defined by a rectangle
\* ------------------------------------------------------------------------
\* Rectangle with integral coordinates
Rectangle(x, y, width, height) == [x |-> x, y |-> y, width |-> width, height |-> height]

\* the security checks that validate the crop rectangle
CropClamp(img, crop) ==
    LET c1 == IF crop.x < 0 THEN [crop EXCEPT !.width = crop.width + crop.x, !.x = 0] ELSE crop
        c2 == IF c1.y < 0 THEN [c1 EXCEPT !.height = c1.height + c1.y, !.y = 0] ELSE c1
        c3 == IF (c2.x + c2.width) > img.width THEN [c2 EXCEPT !.width = img.width - c2.x] ELSE c2
    IN  IF (c3.y + c3.height) > img.height THEN [c3 EXCEPT !.height = img.height - c3.y] ELSE c3

\* mutant: every row is copied from column 0 of the image
CropRowsFromColumnZero(img, crop, bytesPerPixel) ==
    [j \in 1..(crop.width * crop.height * bytesPerPixel) |->
        LET row == (j - 1) \div (crop.width * bytesPerPixel)
            col == (j - 1) % (crop.width * bytesPerPixel)
        IN  img.data[((crop.y + row) * img.width) * bytesPerPixel + col + 1]]

\* croppedData after the line-by-line memcpy loop (crop.width, crop.height > 0)
CropRows(img, crop, bytesPerPixel) ==
    [j \in 1..(crop.width * crop.height * bytesPerPixel) |->
        LET row == (j - 1) \div (crop.width * bytesPerPixel)
            col == (j - 1) % (crop.width * bytesPerPixel)
        IN  img.data[((crop.y + row) * img.width + crop.x) * bytesPerPixel + col + 1]]

ImageCrop(img, crop0, garbage) ==
    IF IsEmptyImage(img) THEN Result(img, FALSE)
    ELSE LET crop == CropClamp(img, crop0)
             bytesPerPixel == GetPixelDataSize(1, 1, img.format)
         IN  IF (crop.x > img.width) \/ (crop.y > img.height) THEN Result(img, FALSE)
             ELSE IF img.format >= PIXELFORMAT_COMPRESSED_DXT1_RGB THEN Result(img, FALSE)
             ELSE IF (crop.height > 0) /\ (crop.width < 0)
                  THEN Result(img, TRUE)     \* memcpy of a negative number of bytes
             ELSE IF crop.height <= 0
                  THEN \* no row is copied: the buffer keeps what malloc returned
                       Result([img EXCEPT !.data = [j \in 1..(crop.width * crop.height * bytesPerPixel)
                                                       |-> garbage],
                                          !.width = crop.width, !.height = crop.height], FALSE)
             ELSE Result([img EXCEPT !.data = CropRows(img, crop, bytesPerPixel),
                                     !.width = crop.width, !.height = crop.height], FALSE)

\* ------------------------------------------------------------------------
\* ImageFromImage, ImageResize: the copy of the source that ImageDraw resamples
\* ------------------------------------------------------------------------
\* byte at offset off of a buffer; a read outside the buffer gives garbage
SafeByte(data, off, garbage) == IF (off >= 0) /\ (off < Len(data)) THEN data[off + 1] ELSE garbage

SafeBytesAt(data, off, n, garbage) == [j \in 1..n |-> SafeByte(data, off + j - 1, garbage)]

\* result.data is calloc'ed and filled by one memcpy per row
ImageFromImage(img, rec, garbage) ==
    LET bytesPerPixel == GetPixelDataSize(1, 1, img.format)
        rowBytes == rec.width * bytesPerPixel
        size == rec.width * rec.height * bytesPerPixel
        srcOff(j) == ((((j - 1) \div rowBytes) + rec.y) * img.width + rec.x) * bytesPerPixel
                     + ((j - 1) % rowBytes)
    IN  IF (rec.height > 0) /\ (rec.width < 0)
        THEN Result(Image(NULL, rec.width, rec.height, img.format, 1), TRUE)
        ELSE IF (rec.height <= 0) \/ (rec.width = 0)
        THEN Result(Image([j \in 1..size |-> 0], rec.width, rec.height, img.format, 1), FALSE)
        ELSE Result(Image([j \in 1..size |-> SafeByte(img.data, srcOff(j), garbage)],
                          rec.width, rec.height, img.format, 1),
                    \E j \in 1..size : (srcOff(j) < 0) \/ (srcOff(j) >= Len(img.data)))

\* stb_image_resize is not part of the sources: its output has the requested
\* size and holds bytes the model does not determine (all equal to resampled)
stbir_resize_uint8(input, inW, inH, outW, outH, channels, resampled) ==
    [j \in 1..(outW * outH * channels) |-> resampled]

ImageResize(img, newWidth, newHeight, resampled, garbage) ==
    IF IsEmptyImage(img) THEN img
    ELSE IF img.format \in {PIXELFORMAT_UNCOMPRESSED_GRAYSCALE, PIXELFORMAT_UNCOMPRESSED_GRAY_ALPHA,
                            PIXELFORMAT_UNCOMPRESSED_R8G8B8, PIXELFORMAT_UNCOMPRESSED_R8G8B8A8}
    THEN [img EXCEPT !.data = stbir_resize_uint8(img.data, img.width, img.height, newWidth, newHeight,
                                                 GetPixelDataSize(1, 1, img.format), resampled),
                     !.width = newWidth, !.height = newHeight]
    ELSE LET pixels == LoadImageColors(img, garbage)
             output == stbir_resize_uint8(ColorBytes(pixels), img.width, img.height, newWidth, newHeight,
                                          4, resampled)
         IN  ImageFormat(Image(output, newWidth, newHeight, PIXELFORMAT_UNCOMPRESSED_R8G8B8A8,
                               img.mipmaps), img.format)

\* ------------------------------------------------------------------------
\* ImageDraw: draw an image (source) within an image (destination)
\* ------------------------------------------------------------------------
\* source rectangle out-of-bounds security checks
DrawSrcClamp(src, srcRec) ==
    LET r1 == IF srcRec.x < 0 THEN [srcRec EXCEPT !.width = srcRec.width + srcRec.x, !.x = 0] ELSE srcRec
        r2 == IF r1.y < 0 THEN [r1 EXCEPT !.height = r1.height + r1.y, !.y = 0] ELSE r1
        r3 == IF (r2.x + r2.width) > src.width THEN [r2 EXCEPT !.width = src.width - r2.x] ELSE r2
    IN  IF (r3.y + r3.height) > src.height THEN [r3 EXCEPT !.height = src.height - r3.y] ELSE r3

\* destination rectangle out-of-bounds security checks: the source and
\* destination rectangles they leave
DrawDstClamp(dst, srcRec, dstRec) ==
    LET s1 == IF dstRec.x < 0
              THEN [srcRec EXCEPT !.x = -dstRec.x, !.width = srcRec.width + dstRec.x]
              ELSE IF (dstRec.x + srcRec.width) > dst.width
                   THEN [srcRec EXCEPT !.width = dst.width - dstRec.x]
                   ELSE srcRec
        d1 == IF dstRec.x < 0 THEN [dstRec EXCEPT !.x = 0] ELSE dstRec
        s2 == IF dstRec.y < 0
              THEN [s1 EXCEPT !.y = -dstRec.y, !.height = s1.height + dstRec.y]
              ELSE IF (dstRec.y + s1.height) > dst.height
                   THEN [s1 EXCEPT !.height = dst.height - dstRec.y]
                   ELSE s1
        d2 == IF dstRec.y < 0 THEN [d1 EXCEPT !.y = 0] ELSE d1
        s3 == IF dst.width < s2.width THEN [s2 EXCEPT !.width = dst.width] ELSE s2
        s4 == IF dst.height < s3.height THEN [s3 EXCEPT !.height = dst.height] ELSE s3
    IN  [srcRec |-> s4, dstRec |-> d2]

\* everything ImageDraw settles before its row loop: the image read from
\* (src or its resampled copy srcMod), the two rectangles, and whether
\* building the copy ran into undefined behaviour
DrawSetupOf(srcPtr, recs, undefined) ==
    [src |-> srcPtr, srcRec |-> recs.srcRec, dstRec |-> recs.dstRec, ub |-> undefined]

\* the source copy srcMod is in use: srcRec becomes its full bounds
DrawSetupMod(dst, srcMod, dstRec, undefined) ==
    DrawSetupOf(srcMod, DrawDstClamp(dst, Rectangle(0, 0, srcMod.width, srcMod.height), dstRec),
                undefined)

\* srcMod = ImageFromImage(src, srcRec); ImageResize(&srcMod, dstRec.width, dstRec.height)
DrawResample(dst, part, dstRec, resampled, garbage) ==
    DrawSetupMod(dst, ImageResize(part.image, dstRec.width, dstRec.height, resampled, garbage),
                 dstRec, part.ub)

\* srcRec has passed the source rectangle checks
DrawSetupClamped(dst, src, srcRec, dstRec, resampled, garbage) ==
    IF (srcRec.width # dstRec.width) \/ (srcRec.height # dstRec.height)
    THEN DrawResample(dst, ImageFromImage(src, srcRec, garbage), dstRec, resampled, garbage)
    ELSE DrawSetupOf(src, DrawDstClamp(dst, srcRec, dstRec), FALSE)

DrawSetup(dst, src, srcRec, dstRec, resampled, garbage) ==
    DrawSetupClamped(dst, src, DrawSrcClamp(src, srcRec), dstRec, resampled, garbage)

\* blendRequired: false if the source has no alpha to blend
BlendRequired(srcPtr, tint) ==
    ~((tint.a = 255) /\ (srcPtr.format \in {PIXELFORMAT_UNCOMPRESSED_GRAYSCALE,
                                            PIXELFORMAT_UNCOMPRESSED_R8G8B8,
                                            PIXELFORMAT_UNCOMPRESSED_R5G6B5}))

\* strides and bytes per pixel of an image with width # 0
Stride(img) == GetPixelDataSize(img.width, 1, img.format)
BytesPerPixelOf(img) == Stride(img) \div img.width

\* byte offsets of pSrcBase and pDstBase before the first row
SrcBase(s) == (s.srcRec.y * s.src.width + s.srcRec.x) * BytesPerPixelOf(s.src)
DstBase(dst, s) == (s.dstRec.y * dst.width + s.dstRec.x) * BytesPerPixelOf(dst)

\* the destination bytes after a loop that writes, for every row y and byte t
\* of the row, written[y][t] at pDstBase + y*strideDst + t
WriteRows(dst, s, rowBytes, written) ==
    [j \in 1..Len(dst.data) |->
        LET rel == (j - 1) - DstBase(dst, s)
        IN  IF (rel >= 0) /\ (Stride(dst) > 0) /\ ((rel \div Stride(dst)) < s.srcRec.height)
                          /\ ((rel % Stride(dst)) < rowBytes)
            THEN written[rel \div Stride(dst)][rel % Stride(dst)]
            ELSE dst.data[j]]

\* some row written by the loop ends beyond the destination buffer
WritesOutside(dst, s, rowBytes) ==
    (s.srcRec.height > 0) /\ (rowBytes > 0)
        /\ (DstBase(dst, s) + (s.srcRec.height - 1) * Stride(dst) + rowBytes > Len(dst.data))

\* some row read by the loop ends beyond the source buffer
ReadsOutside(s, rowBytes) ==
    (s.srcRec.height > 0) /\ (rowBytes > 0)
        /\ (  \/ SrcBase(s) < 0
              \/ SrcBase(s) + (s.srcRec.height - 1) * Stride(s.src) + rowBytes > Len(s.src.data))

\* fast path: memcpy(pDst, pSrc, (int)(srcRec.width)*bytesPerPixelSrc) per row
DrawRowCopy(dst, s, garbage) ==
    LET rowBytes == s.srcRec.width * BytesPerPixelOf(s.src)
        written == [y \in 0..(s.srcRec.height - 1) |->
                       [t \in 0..(rowBytes - 1) |->
                           SafeByte(s.src.data, SrcBase(s) + y * Stride(s.src) + t, garbage)]]
    IN  IF (s.srcRec.height > 0) /\ (rowBytes < 0) THEN Result(dst, TRUE)
        ELSE Result([dst EXCEPT !.data = WriteRows(dst, s, rowBytes, written)],
                    WritesOutside(dst, s, rowBytes) \/ ReadsOutside(s, rowBytes))

\* one pixel of the per-pixel path: the bytes left at pDst
BlendColors(colSrc, colDst, tint, blendRequired) ==
    IF blendRequired THEN ColorAlphaBlend(colDst, colSrc, tint) ELSE colSrc

BlendPixel(pSrc, pDst, srcFormat, dstFormat, tint, blendRequired) ==
    SetPixelColor(pDst, BlendColors(GetPixelColor(pSrc, srcFormat), GetPixelColor(pDst, dstFormat),
                                    tint, blendRequired), dstFormat)

\* per-pixel path: GetPixelColor of source and destination, ColorAlphaBlend
\* if blendRequired, SetPixelColor
DrawPerPixel(dst, s, tint, blendRequired, garbage) ==
    LET bppSrc == BytesPerPixelOf(s.src)
        bppDst == BytesPerPixelOf(dst)
        rowBytes == s.srcRec.width * bppDst
        pixel(y, x) ==
            BlendPixel(SafeBytesAt(s.src.data, SrcBase(s) + y * Stride(s.src) + x * bppSrc, bppSrc, garbage),
                       SafeBytesAt(dst.data, DstBase(dst, s) + y * Stride(dst) + x * bppDst, bppDst, garbage),
                       s.src.format, dst.format, tint, blendRequired)
        pixels == [y \in 0..(s.srcRec.height - 1) |->
                      [x \in 0..(s.srcRec.width - 1) |-> pixel(y, x)]]
        written == [y \in 0..(s.srcRec.height - 1) |->
                       [t \in 0..(rowBytes - 1) |-> pixels[y][t \div bppDst][(t % bppDst) + 1]]]
    IN  Result([dst EXCEPT !.data = WriteRows(dst, s, rowBytes, written)],
               WritesOutside(dst, s, rowBytes) \/ ReadsOutside(s, s.srcRec.width * bppSrc))

\* the row loop, with what DrawSetup has settled
DrawRows(dst, s, tint, garbage) ==
    IF s.ub THEN Result(dst, TRUE)
    ELSE IF s.src.width = 0 THEN Result(dst, TRUE)     \* strideSrc/(srcPtr->width)
    ELSE IF ~BlendRequired(s.src, tint) /\ (s.src.format = dst.format) THEN DrawRowCopy(dst, s, garbage)
    ELSE DrawPerPixel(dst, s, tint, BlendRequired(s.src, tint), garbage)

\* mutant: the source is not checked for being empty
ImageDrawAnySource(dst, src, srcRec, dstRec, tint, resampled, garbage) ==
    IF IsEmptyImage(dst) THEN Result(dst, FALSE)
    ELSE IF dst.format >= PIXELFORMAT_COMPRESSED_DXT1_RGB THEN Result(dst, FALSE)
    ELSE DrawRows(dst, DrawSetup(dst, src, srcRec, dstRec, resampled, garbage), tint, garbage)

ImageDraw(dst, src, srcRec, dstRec, tint, resampled, garbage) ==
    IF IsEmptyImage(dst) \/ IsEmptyImage(src) THEN Result(dst, FALSE)
    ELSE IF dst.format >= PIXELFORMAT_COMPRESSED_DXT1_RGB THEN Result(dst, FALSE)
    ELSE DrawRows(dst, DrawSetup(dst, src, srcRec, dstRec, resampled, garbage), tint, garbage)

\* ------------------------------------------------------------------------
\* ImageDrawPixel, ImageDrawRectangleRec
\* ------------------------------------------------------------------------
\* the bytes ImageDrawPixel stores for a color, per destination format
DrawPixelEncoded(color, x, y, z, w, format) ==
        CASE format = PIXELFORMAT_UNCOMPRESSED_GRAYSCALE -> << GrayOf(x, y, z) >>
          [] format = PIXELFORMAT_UNCOMPRESSED_GRAY_ALPHA -> << GrayOf(x, y, z), color.a >>
          [] format = PIXELFORMAT_UNCOMPRESSED_R5G6B5 ->
                U16Bytes(Pack565(Quantize(x, F32_31), Quantize(y, F32_63), Quantize(z, F32_31)))
          [] format = PIXELFORMAT_UNCOMPRESSED_R5G5B5A1 ->
                U16Bytes(Pack5551(Quantize(x, F32_31), Quantize(y, F32_31), Quantize(z, F32_31),
                                  AlphaBit(w)))
          [] format = PIXELFORMAT_UNCOMPRESSED_R4G4B4A4 ->
                U16Bytes(Pack4444(Quantize(x, F32_15), Quantize(y, F32_15), Quantize(z, F32_15),
                                  Quantize(w, F32_15)))
          [] format = PIXELFORMAT_UNCOMPRESSED_R8G8B8 -> << color.r, color.g, color.b >>
          [] format = PIXELFORMAT_UNCOMPRESSED_R8G8B8A8 -> << color.r, color.g, color.b, color.a >>
          [] format = PIXELFORMAT_UNCOMPRESSED_R32 -> F32Bytes(Luma(Vector4(x, y, z, w)))
          [] format = PIXELFORMAT_UNCOMPRESSED_R32G32B32 -> F32Bytes(x) \o F32Bytes(y) \o F32Bytes(z)
          [] format = PIXELFORMAT_UNCOMPRESSED_R32G32B32A32 ->
                F32Bytes(x) \o F32Bytes(y) \o F32Bytes(z) \o F32Bytes(w)
          [] OTHER -> <<>>

\* coln = { (float)color.r/255.0f, (float)color.g/255.0f, (float)color.b/255.0f, (float)color.a/255.0f }
DrawPixelBytes(color, format) ==
    DrawPixelEncoded(color, Normalize(color.r), Normalize(color.g), Normalize(color.b),
                     Normalize(color.a), format)

\* data with the bytes at offset off replaced (bytes that fall outside are dropped)
WriteBytes(data, off, bytes) ==
    [j \in 1..Len(data) |->
        IF (j - 1 >= off) /\ (j - 1 < off + Len(bytes)) THEN bytes[j - off] ELSE data[j]]

\* bytes stored at pixel index (y*dst->width + x)
StorePixel(dst, index, bytes) ==
    [dst EXCEPT !.data = WriteBytes(dst.data, index * Len(bytes), bytes)]

ImageDrawPixel(dst, x, y, color) ==
    IF (dst.data = NULL) \/ (x < 0) \/ (x >= dst.width) \/ (y < 0) \/ (y >= dst.height) THEN dst
    ELSE StorePixel(dst, y * dst.width + x, DrawPixelBytes(color, dst.format))

\* one iteration of the row loop: the first pixel is drawn, then repeated
\* width - 1 times by memcpy, whatever lies there
\* the memcpy loop of a row: pSrcPixel repeated width - 1 times after the first pixel
RepeatPixel(first, bytesOffset, pSrcPixel, width, bytesPerPixel) ==
    [first EXCEPT !.data =
        WriteBytes(first.data, bytesOffset + bytesPerPixel,
                   [j \in 1..((width - 1) * bytesPerPixel) |-> pSrcPixel[((j - 1) % bytesPerPixel) + 1]])]

\* a row whose first pixel has been drawn (first is the image after ImageDrawPixel)
RectRowFrom(first, bytesOffset, width, bytesPerPixel, garbage) ==
    IF width <= 1 THEN Result(first, FALSE)
    ELSE Result(RepeatPixel(first, bytesOffset,
                            SafeBytesAt(first.data, bytesOffset, bytesPerPixel, garbage),
                            width, bytesPerPixel),
                bytesOffset + width * bytesPerPixel > Len(first.data))

RectRow(dst, sx, y, width, bytesPerPixel, color, garbage) ==
    RectRowFrom(ImageDrawPixel(dst, sx, y, color), ((y * dst.width) + sx) * bytesPerPixel,
                width, bytesPerPixel, garbage)

\* the row loop from row y on; res is the image so far and whether a row overran the buffer
RECURSIVE RectRows(_, _, _, _, _, _, _, _)
RectRowsNext(res, r, sx, y, ey, width, bytesPerPixel, color, garbage) ==
    RectRows(Result(r.image, res.ub \/ r.ub), sx, y, ey, width, bytesPerPixel, color, garbage)

RectRows(res, sx, y, ey, width, bytesPerPixel, color, garbage) ==
    IF y >= ey THEN res
    ELSE RectRowsNext(res, RectRow(res.image, sx, y, width, bytesPerPixel, color, garbage),
                      sx, y + 1, ey, width, bytesPerPixel, color, garbage)

\* the security check on the rectangle
RectClamp(rec) ==
    LET r1 == IF rec.x < 0 THEN [rec EXCEPT !.width = rec.width - rec.x, !.x = 0] ELSE rec
        r2 == IF r1.y < 0 THEN [r1 EXCEPT !.height = r1.height - r1.y, !.y = 0] ELSE r1
        r3 == IF r2.width < 0 THEN [r2 EXCEPT !.width = 0] ELSE r2
    IN  IF r3.height < 0 THEN [r3 EXCEPT !.height = 0] ELSE r3

ImageDrawRectangleRec(dst, rec0, color, garbage) ==
    IF IsEmptyImage(dst) THEN Result(dst, FALSE)
    ELSE LET rec == RectClamp(rec0)
         IN  RectRows(Result(dst, FALSE), rec.x, rec.y, rec.y + rec.height, rec.width,
                      GetPixelDataSize(1, 1, dst.format), color, garbage)

\* ------------------------------------------------------------------------
\* ImageDrawLine: draw line within an image (Bresenham)
\* ------------------------------------------------------------------------
Abs(n) == IF n < 0 THEN -n ELSE n

\* the substitutions made before the loop: U is the major axis, V the minor
\* one; reversedXY tells that U = X
LineSetup(startPosX, startPosY, endPosX, endPosY) ==
    LET changeInX == endPosX - startPosX
        changeInY == endPosY - startPosY
        absChangeInX == Abs(changeInX)
        absChangeInY == Abs(changeInY)
    IN  IF absChangeInY < absChangeInX
        THEN [reversedXY |-> TRUE, A |-> 2 * absChangeInY, B |-> 2 * absChangeInY - 2 * absChangeInX,
              P |-> 2 * absChangeInY - absChangeInX,
              startU |-> IF changeInX > 0 THEN startPosX ELSE endPosX,
              startV |-> IF changeInX > 0 THEN startPosY ELSE endPosY,
              endU |-> IF changeInX > 0 THEN endPosX ELSE startPosX,
              stepV |-> IF (IF changeInX > 0 THEN changeInY ELSE -changeInY) < 0 THEN -1 ELSE 1]
        ELSE [reversedXY |-> FALSE, A |-> 2 * absChangeInX, B |-> 2 * absChangeInX - 2 * absChangeInY,
              P |-> 2 * absChangeInX - absChangeInY,
              startU |-> IF changeInY > 0 THEN startPosY ELSE endPosY,
              startV |-> IF changeInY > 0 THEN startPosX ELSE endPosX,
              endU |-> IF changeInY > 0 THEN endPosY ELSE startPosY,
              stepV |-> IF (IF changeInY > 0 THEN changeInX ELSE -changeInX) < 0 THEN -1 ELSE 1]

\* ImageDrawPixel at (u, v) of the substituted axes
LinePixel(dst, s, u, v, color) ==
    IF s.reversedXY THEN ImageDrawPixel(dst, u, v, color) ELSE ImageDrawPixel(dst, v, u, color)

\* the loop from u on, with v and P as they stand before the iteration
RECURSIVE LineLoop(_, _, _, _, _, _)
LineNext(dst, s, u, v, P, color) == LineLoop(LinePixel(dst, s, u, v, color), s, u + 1, v, P, color)

LineLoop(dst, s, u, v, P, color) ==
    IF u > s.endU THEN dst
    ELSE IF P >= 0 THEN LineNext(dst, s, u, v + s.stepV, P + s.B, color)
    ELSE LineNext(dst, s, u, v, P + s.A, color)

LineFrom(dst, s, color) ==
    LineLoop(LinePixel(dst, s, s.startU, s.startV, color), s, s.startU + 1, s.startV, s.P, color)

\* mutant: the start pixel is not drawn before the loop
ImageDrawLineFromNext(dst, startPosX, startPosY, endPosX, endPosY, color) ==
    LineLoop(dst, LineSetup(startPosX, startPosY, endPosX, endPosY),
             LineSetup(startPosX, startPosY, endPosX, endPosY).startU + 1,
             LineSetup(startPosX, startPosY, endPosX, endPosY).startV,
             LineSetup(startPosX, startPosY, endPosX, endPosY).P, color)

ImageDrawLine(dst, startPosX, startPosY, endPosX, endPosY, color) ==
    LineFrom(dst, LineSetup(startPosX, startPosY, endPosX, endPosY), color)

\* ------------------------------------------------------------------------
\* ImageDrawCircle: draw a filled circle within an image
\* ------------------------------------------------------------------------
\* an image with its buffer written out as a plain sequence of bytes
Stored(img) == [img EXCEPT !.data = SubSeq(img.data, 1, Len(img.data))]

\* ImageDrawRectangle on the image so far; res.ub remembers an earlier overrun
DrawRectangleOn(res, posX, posY, width, height, color, garbage) ==
    Result(Stored(ImageDrawRectangleRec(res.image, Rectangle(posX, posY, width, height), color,
                                        garbage).image),
           res.ub \/ ImageDrawRectangleRec(res.image, Rectangle(posX, posY, width, height), color, garbage).ub)

\* the four spans drawn in one iteration of the loop
CircleSpans(res, centerX, centerY, x, y, color, garbage) ==
    DrawRectangleOn(
        DrawRectangleOn(
            DrawRectangleOn(
                DrawRectangleOn(res, centerX - x, centerY + y, x * 2, 1, color, garbage),
                centerX - x, centerY - y, x * 2, 1, color, garbage),
            centerX - y, centerY + x, y * 2, 1, color, garbage),
        centerX - y, centerY - x, y * 2, 1, color, garbage)

\* the loop with x, y and decesionParameter as they stand before the iteration;
\* once a span has overrun the buffer the rest of the call is left out
RECURSIVE CircleLoop(_, _, _, _, _, _, _, _)
CircleLoop(res, centerX, centerY, x, y, decesionParameter, color, garbage) ==
    IF res.ub \/ ~(y >= x) THEN res
    ELSE IF decesionParameter > 0
    THEN CircleLoop(CircleSpans(res, centerX, centerY, x, y, color, garbage), centerX, centerY,
                    x + 1, y - 1, decesionParameter + 4 * ((x + 1) - (y - 1)) + 10, color, garbage)
    ELSE CircleLoop(CircleSpans(res, centerX, centerY, x, y, color, garbage), centerX, centerY,
                    x + 1, y, decesionParameter + 4 * (x + 1) + 6, color, garbage)

ImageDrawCircle(dst, centerX, centerY, radius, color, garbage) ==
    CircleLoop(Result(dst, FALSE), centerX, centerY, 0, radius, 3 - 2 * radius, color, garbage)

\* ------------------------------------------------------------------------
\* ImageCopy: copy an image to a new image
\* ------------------------------------------------------------------------
\* newImage.data is calloc'ed with the size of all mipmap levels and filled by
\* one memcpy; a read beyond image.data gives garbage
ImageCopy(img, garbage) ==
    Result(Image(SafeBytesAt(img.data, 0, MipChainSize(img.width, img.height, img.format, img.mipmaps),
                             garbage),
                 img.width, img.height, img.format, img.mipmaps),
           MipChainSize(img.width, img.height, img.format, img.mipmaps) > Len(img.data))

\* ------------------------------------------------------------------------
\* ImageResizeCanvas: resize canvas and fill with color
\* ------------------------------------------------------------------------
\* srcRec after the checks against the offset and the new size
CanvasSrcRec(img, newWidth, newHeight, offsetX, offsetY) ==
    LET r0 == Rectangle(0, 0, img.width, img.height)
        r1 == IF offsetX < 0 THEN [r0 EXCEPT !.x = -offsetX, !.width = r0.width + offsetX]
              ELSE IF (offsetX + img.width) > newWidth THEN [r0 EXCEPT !.width = newWidth - offsetX]
              ELSE r0
        r2 == IF offsetY < 0 THEN [r1 EXCEPT !.y = -offsetY, !.height = r1.height + offsetY]
              ELSE IF (offsetY + img.height) > newHeight THEN [r1 EXCEPT !.height = newHeight - offsetY]
              ELSE r1
        r3 == IF newWidth < r2.width THEN [r2 EXCEPT !.width = newWidth] ELSE r2
    IN  IF newHeight < r3.height THEN [r3 EXCEPT !.height = newHeight] ELSE r3

\* dstPos: the offset, with a negative coordinate replaced by 0
CanvasDstPos(offsetX, offsetY) ==
    [x |-> IF offsetX < 0 THEN 0 ELSE offsetX, y |-> IF offsetY < 0 THEN 0 ELSE offsetY]

\* resizedData after the row loop: calloc'ed zeros, then srcRec.height rows of
\* srcRec.width pixels copied to dstOffsetSize, dstOffsetSize + newWidth*bytesPerPixel, ...
CanvasRows(img, newWidth, newHeight, srcRec, dstOffsetSize, bytesPerPixel, garbage) ==
    [j \in 1..(newWidth * newHeight * bytesPerPixel) |->
        LET rel == (j - 1) - dstOffsetSize
            row == rel \div (newWidth * bytesPerPixel)
            col == rel % (newWidth * bytesPerPixel)
        IN  IF (rel >= 0) /\ (row < srcRec.height) /\ (col < srcRec.width * bytesPerPixel)
            THEN SafeByte(img.data, ((row + srcRec.y) * img.width + srcRec.x) * bytesPerPixel + col, garbage)
            ELSE 0]

\* some row of the loop is read from beyond image->data or written beyond resizedData
CanvasOutside(img, newWidth, newHeight, srcRec, dstOffsetSize, bytesPerPixel) ==
    (srcRec.height > 0) /\ (srcRec.width * bytesPerPixel # 0)
        /\ (  \/ srcRec.width < 0
              \/ dstOffsetSize + ((srcRec.height - 1) * newWidth + srcRec.width) * bytesPerPixel
                     > newWidth * newHeight * bytesPerPixel
              \/ (((srcRec.height - 1) + srcRec.y) * img.width + srcRec.x + srcRec.width) * bytesPerPixel
                     > Len(img.data))

\* the else branch, with srcRec, dstPos and bytesPerPixel settled
CanvasCopy(img, newWidth, newHeight, srcRec, dstPos, bytesPerPixel, garbage) ==
    IF CanvasOutside(img, newWidth, newHeight, srcRec, (dstPos.y * newWidth + dstPos.x) * bytesPerPixel,
                     bytesPerPixel)
    THEN Result(img, TRUE)
    ELSE Result([img EXCEPT !.data = CanvasRows(img, newWidth, newHeight, srcRec,
                                                (dstPos.y * newWidth + dstPos.x) * bytesPerPixel,
                                                bytesPerPixel, garbage),
                            !.width = newWidth, !.height = newHeight], FALSE)

\* newWidth, newHeight > 0; fill is not used by the code
ImageResizeCanvas(img, newWidth, newHeight, offsetX, offsetY, fill, garbage) ==
    IF IsEmptyImage(img) THEN Result(img, FALSE)
    ELSE IF img.format >= PIXELFORMAT_COMPRESSED_DXT1_RGB THEN Result(img, FALSE)
    ELSE IF (newWidth # img.width) \/ (newHeight # img.height)
    THEN CanvasCopy(img, newWidth, newHeight, CanvasSrcRec(img, newWidth, newHeight, offsetX, offsetY),
                    CanvasDstPos(offsetX, offsetY), GetPixelDataSize(1, 1, img.format), garbage)
    ELSE Result(img, FALSE)

\* ------------------------------------------------------------------------
\* Allocations: the statements of each operation that allocate, free or
\* access a buffer, in program order.  A pointer variable is named by a
\* string; the pointer arguments of an operation are passed as such names.
\* ------------------------------------------------------------------------
Malloc(v) == [op |-> "malloc", var |-> v]                  \* v = RL_MALLOC(..) or RL_CALLOC(..)
Free(v) == [op |-> "free", var |-> v]                      \* RL_FREE(v)
Use(v) == [op |-> "use", var |-> v]                        \* a read or write through v
Move(to, from) == [op |-> "move", var |-> to, from |-> from]     \* to = from
SetNull(v) == [op |-> "null", var |-> v]                   \* v = NULL
IfNotNull(v, body) == [op |-> "ifnotnull", var |-> v, body |-> body]   \* if (v != NULL) { body }

\* a loop that runs at least once accesses the buffers it copies between
UseIf(runs, vs) == IF runs THEN [i \in 1..Len(vs) |-> Use(vs[i])] ELSE <<>>

\* the security check that opens an operation on *image: the rest runs only
\* on an image with data, width and height
UnlessEmpty(data, img, body) ==
    IF (img.width = 0) \/ (img.height = 0) THEN <<>> ELSE << IfNotNull(data, body) >>

\* pixels = LoadImageColors(image)
LoadImageColorsMem(pixels, data, img) ==
    IF (img.width = 0) \/ (img.height = 0) THEN << SetNull(pixels) >>
    ELSE << Malloc(pixels) >>
         \o UseIf(img.format < PIXELFORMAT_COMPRESSED_DXT1_RGB, << data, pixels >>)

\* pixels = LoadImageDataNormalized(image)
LoadImageDataNormalizedMem(pixels, data, img) ==
    << Malloc(pixels) >>
    \o UseIf((img.format < PIXELFORMAT_COMPRESSED_DXT1_RGB) /\ (img.width * img.height > 0),
             << data, pixels >>)

ImageFormatMem(data, img, newFormat) ==
    UnlessEmpty(data, img,
        IF (newFormat # 0) /\ (img.format # newFormat)
              /\ (img.format < PIXELFORMAT_COMPRESSED_DXT1_RGB)
              /\ (newFormat < PIXELFORMAT_COMPRESSED_DXT1_RGB)
        THEN LoadImageDataNormalizedMem("ImageFormat.pixels", data, img)
             \o << Free(data), SetNull(data) >>
             \o (IF newFormat \in UncompressedFormats
                 THEN << Malloc(data) >> \o UseIf(img.width * img.height > 0, << "ImageFormat.pixels", data >>)
                 ELSE <<>>)
             \o << Free("ImageFormat.pixels"), SetNull("ImageFormat.pixels") >>
        ELSE <<>>)

\* newImage = ImageCopy(image)
ImageCopyMem(newImage, data, img) ==
    << Malloc(newImage),
       IfNotNull(newImage, UseIf(MipChainSize(img.width, img.height, img.format, img.mipmaps) > 0,
                                 << newImage, data >>)) >>

\* result = ImageFromImage(image, rec)
ImageFromImageMem(result, data, img, rec) ==
    << Malloc(result) >>
    \o UseIf((rec.height > 0) /\ (rec.width * GetPixelDataSize(1, 1, img.format) # 0), << result, data >>)

\* the statements after the crop rectangle has been validated
CropMem(data, img, crop) ==
    IF (crop.x > img.width) \/ (crop.y > img.height) THEN <<>>
    ELSE IF img.format >= PIXELFORMAT_COMPRESSED_DXT1_RGB THEN <<>>
    ELSE << Malloc("croppedData") >>
         \o UseIf((crop.height > 0) /\ (crop.width * GetPixelDataSize(1, 1, img.format) # 0),
                  << "croppedData", data >>)
         \o << Free(data), Move(data, "croppedData") >>

ImageCropMem(data, img, crop) == UnlessEmpty(data, img, CropMem(data, img, CropClamp(img, crop)))

\* mutant: the Color array is not unloaded
ImageResizeNNMemKeepsPixels(data, img, newWidth, newHeight) ==
    UnlessEmpty(data, img,
        LoadImageColorsMem("pixels", data, img)
        \o << Malloc("output") >>
        \o UseIf((newWidth > 0) /\ (newHeight > 0), << "output", "pixels" >>)
        \o << Free(data), Move(data, "output") >>
        \o ImageFormatMem(data, Image(NULL, newWidth, newHeight, PIXELFORMAT_UNCOMPRESSED_R8G8B8A8,
                                      img.mipmaps), img.format))

ImageResizeNNMem(data, img, newWidth, newHeight) ==
    UnlessEmpty(data, img,
        LoadImageColorsMem("pixels", data, img)
        \o << Malloc("output") >>
        \o UseIf((newWidth > 0) /\ (newHeight > 0), << "output", "pixels" >>)
        \o << Free(data), Move(data, "output") >>
        \o ImageFormatMem(data, Image(NULL, newWidth, newHeight, PIXELFORMAT_UNCOMPRESSED_R8G8B8A8,
                                      img.mipmaps), img.format)
        \o << Free("pixels") >>)

ImageResizeMem(data, img, newWidth, newHeight) ==
    UnlessEmpty(data, img,
        IF img.format \in {PIXELFORMAT_UNCOMPRESSED_GRAYSCALE, PIXELFORMAT_UNCOMPRESSED_GRAY_ALPHA,
                           PIXELFORMAT_UNCOMPRESSED_R8G8B8, PIXELFORMAT_UNCOMPRESSED_R8G8B8A8}
        THEN << Malloc("output") >>
             \o UseIf(newWidth * newHeight > 0, << data, "output" >>)
             \o << Free(data), Move(data, "output") >>
        ELSE LoadImageColorsMem("pixels", data, img)
             \o << Malloc("output") >>
             \o UseIf(newWidth * newHeight > 0, << "pixels", "output" >>)
             \o << Free("pixels"), Free(data), Move(data, "output") >>
             \o ImageFormatMem(data, Image(NULL, newWidth, newHeight, PIXELFORMAT_UNCOMPRESSED_R8G8B8A8,
                                           img.mipmaps), img.format))

\* the statements once srcRec has been settled
CanvasMem(data, img, srcRec) ==
    << Malloc("resizedData") >>
    \o UseIf((srcRec.height > 0) /\ (srcRec.width * GetPixelDataSize(1, 1, img.format) # 0),
             << "resizedData", data >>)
    \o << Free(data), Move(data, "resizedData") >>

ImageResizeCanvasMem(data, img, newWidth, newHeight, offsetX, offsetY) ==
    UnlessEmpty(data, img,
        IF img.format >= PIXELFORMAT_COMPRESSED_DXT1_RGB THEN <<>>
        ELSE IF (newWidth # img.width) \/ (newHeight # img.height)
        THEN CanvasMem(data, img, CanvasSrcRec(img, newWidth, newHeight, offsetX, offsetY))
        ELSE <<>>)

\* srcMod as ImageResize leaves it: resized unless it came out empty
SrcModShape(src, srcRec, dstRec) ==
    IF (srcRec.width = 0) \/ (srcRec.height = 0)
    THEN Image(NULL, srcRec.width, srcRec.height, src.format, 1)
    ELSE Image(NULL, dstRec.width, dstRec.height, src.format, 1)

\* the row loop of ImageDraw reads through srcData and writes through dstData
DrawLoopMem(dstData, srcData, recs) ==
    UseIf((recs.srcRec.height > 0) /\ (recs.srcRec.width > 0), << srcData, dstData >>)

\* ImageDraw with a source copy: srcRec has passed the source rectangle checks
DrawModMem(dstData, srcData, dst, src, srcRec, dstRec) ==
    ImageFromImageMem("srcMod.data", srcData, src, srcRec)
    \o ImageResizeMem("srcMod.data", Image(NULL, srcRec.width, srcRec.height, src.format, 1),
                      dstRec.width, dstRec.height)
    \o DrawLoopMem(dstData, "srcMod.data",
                   DrawDstClamp(dst, Rectangle(0, 0, SrcModShape(src, srcRec, dstRec).width,
                                               SrcModShape(src, srcRec, dstRec).height), dstRec))
    \o << Free("srcMod.data") >>

DrawClampedMem(dstData, srcData, dst, src, srcRec, dstRec) ==
    IF (srcRec.width # dstRec.width) \/ (srcRec.height # dstRec.height)
    THEN DrawModMem(dstData, srcData, dst, src, srcRec, dstRec)
    ELSE DrawLoopMem(dstData, srcData, DrawDstClamp(dst, srcRec, dstRec))

ImageDrawMem(dstData, srcData, dst, src, srcRec, dstRec) ==
    IF (dst.width = 0) \/ (dst.height = 0) \/ (src.width = 0) \/ (src.height = 0) THEN <<>>
    ELSE << IfNotNull(dstData, << IfNotNull(srcData,
               IF dst.format >= PIXELFORMAT_COMPRESSED_DXT1_RGB THEN <<>>
               ELSE DrawClampedMem(dstData, srcData, dst, src, DrawSrcClamp(src, srcRec), dstRec)) >>) >>

\* ------------------------------------------------------------------------
\* Idle values of the variables a specification does not use
\* ------------------------------------------------------------------------
IdleRec == [pc |-> "idle"]
NoImage == [data |-> NULL, width |-> 0, height |-> 0, format |-> 0, mipmaps |-> 0]

ImageIdle == image = NoImage /\ old = <<>> /\ ops = <<>> /\ ub = FALSE /\ heap = IdleRec
imgVars == <<image, old, ops, ub, heap>>

\* ------------------------------------------------------------------------
\* SpecSize: GetPixelDataSize applied to every format and small sizes
\* ------------------------------------------------------------------------
InitSize ==
    /\ sz \in [pc : {"call"}, width : 1..MaxSide, height : 1..MaxSide,
               format : {0} \cup PixelFormats, dataSize : {0}]
    /\ px = IdleRec /\ bl = IdleRec /\ ImageIdle /\ game = IdleRec

CallGetPixelDataSize ==
    /\ sz.pc = "call"
    /\ sz' = [sz EXCEPT !.pc = "ret",
                        !.dataSize = GetPixelDataSize(sz.width, sz.height, sz.format)]
    /\ UNCHANGED <<px, bl, imgVars, game>>

NextSize == CallGetPixelDataSize

SpecSize == InitSize /\ [][NextSize]_vars

\* the formats whose 4x4 block takes 8 bytes (4 bits per pixel) and 16 bytes (8 bits per pixel)
Block8Formats == {PIXELFORMAT_COMPRESSED_DXT1_RGB, PIXELFORMAT_COMPRESSED_DXT1_RGBA,
                  PIXELFORMAT_COMPRESSED_ETC1_RGB, PIXELFORMAT_COMPRESSED_ETC2_RGB,
                  PIXELFORMAT_COMPRESSED_PVRT_RGB, PIXELFORMAT_COMPRESSED_PVRT_RGBA}
Block16Formats == {PIXELFORMAT_COMPRESSED_DXT3_RGBA, PIXELFORMAT_COMPRESSED_DXT5_RGBA,
                   PIXELFORMAT_COMPRESSED_ETC2_EAC_RGBA, PIXELFORMAT_COMPRESSED_ASTC_4x4_RGBA}

\* C1: GetPixelDataSize returns width*height*bpp/8, except that a compressed
\* image smaller than a 4x4 block (width < 4 and height < 4) gets the minimum
\* block size: 8 bytes for the 4-bit-per-pixel formats, 16 bytes for the
\* 8-bit-per-pixel block formats.
C1_DataSize ==
    sz.pc = "ret" =>
        sz.dataSize =
            IF sz.width < 4 /\ sz.height < 4 /\ sz.format \in Block8Formats THEN 8
            ELSE IF sz.width < 4 /\ sz.height < 4 /\ sz.format \in Block16Formats THEN 16
            ELSE (sz.width * sz.height * BitsPerPixel(sz.format)) \div 8

\* ------------------------------------------------------------------------
\* SpecPixel: a pixel in memory is decoded and encoded in turn
\*   start = "mem":   memory holds a stored pixel; GetPixelColor, SetPixelColor, ...
\*   start = "color": a Color is given;            SetPixelColor, GetPixelColor, ...
\* ------------------------------------------------------------------------
MaxCodecOps == 3    \* codec calls applied in turn to one pixel

ByteSamples == {0, 1, 127, 128, 170, 254, 255}
HighByteSamples == {0, 1, 2, 7, 8, 15, 16, 31, 64, 127, 128, 170, 248, 252, 254, 255}
FloatSamples == {0, F32DivInt(1, 2), F32_1_0}
ColorSamples == {Color(r, g, b, a) : r \in {0, 246, 248, 255}, g \in {0, 250, 252, 255},
                                     b \in {0, 246, 248, 255}, a \in {0, 50, 51, 255}}

\* the stored pixels the codec is applied to, per format
PixelMems(format) ==
    CASE format = PIXELFORMAT_UNCOMPRESSED_GRAYSCALE -> {<<v>> : v \in 0..255}
      [] format = PIXELFORMAT_UNCOMPRESSED_GRAY_ALPHA -> {<<v, a>> : v \in ByteSamples, a \in ByteSamples}
      [] format \in {PIXELFORMAT_UNCOMPRESSED_R5G6B5, PIXELFORMAT_UNCOMPRESSED_R5G5B5A1,
                     PIXELFORMAT_UNCOMPRESSED_R4G4B4A4} -> {<<lo, hi>> : lo \in 0..255, hi \in HighByteSamples}
      [] format = PIXELFORMAT_UNCOMPRESSED_R8G8B8 ->
            {<<r, g, b>> : r \in ByteSamples, g \in ByteSamples, b \in ByteSamples}
      [] format = PIXELFORMAT_UNCOMPRESSED_R8G8B8A8 ->
            {<<r, g, b, a>> : r \in ByteSamples, g \in ByteSamples, b \in ByteSamples, a \in {0, 128, 255}}
      [] format = PIXELFORMAT_UNCOMPRESSED_R32 -> {F32Bytes(x) : x \in FloatSamples}
      [] format = PIXELFORMAT_UNCOMPRESSED_R32G32B32 ->
            {F32Bytes(x) \o F32Bytes(y) \o F32Bytes(z) : x \in FloatSamples, y \in FloatSamples, z \in FloatSamples}
      [] format = PIXELFORMAT_UNCOMPRESSED_R32G32B32A32 ->
            {F32Bytes(x) \o F32Bytes(y) \o F32Bytes(z) \o F32Bytes(w) :
                x \in FloatSamples, y \in FloatSamples, z \in FloatSamples, w \in FloatSamples}
      [] OTHER -> {}

ZeroBytes(n) == [i \in 1..n |-> 0]

InitPixel ==
    /\ \E format \in UncompressedFormats :
          \/ \E mem \in PixelMems(format) :
                px = [start |-> "mem", format |-> format, mem |-> mem, color |-> BLANK,
                      mem0 |-> mem, color0 |-> BLANK, n |-> 0]
          \/ \E color \in ColorSamples :
                px = [start |-> "color", format |-> format,
                      mem |-> ZeroBytes(GetPixelDataSize(1, 1, format)), color |-> color,
                      mem0 |-> ZeroBytes(GetPixelDataSize(1, 1, format)), color0 |-> color, n |-> 0]
    /\ sz = IdleRec /\ bl = IdleRec /\ ImageIdle /\ game = IdleRec

\* the next call decodes when the number of calls so far is even and memory
\* was given, or odd and a Color was given
NextIsGet == (px.start = "mem") = (px.n % 2 = 0)

CallGetPixelColor ==
    /\ px.n < MaxCodecOps
    /\ NextIsGet
    /\ px' = [px EXCEPT !.color = GetPixelColor(px.mem, px.format), !.n = px.n + 1]
    /\ UNCHANGED <<sz, bl, imgVars, game>>

CallSetPixelColor ==
    /\ px.n < MaxCodecOps
    /\ ~NextIsGet
    /\ px' = [px EXCEPT !.mem = SetPixelColor(px.mem, px.color, px.format), !.n = px.n + 1]
    /\ UNCHANGED <<sz, bl, imgVars, game>>

NextPixel == CallGetPixelColor \/ CallSetPixelColor

SpecPixel == InitPixel /\ [][NextPixel]_vars

\* a Color is quantized to R5G6B5 when each channel is the decoding of a stored channel value
Quantized565(c) ==
    /\ \E v \in 0..31 : c.r = (v * 255) \div 31
    /\ \E v \in 0..63 : c.g = (v * 255) \div 63
    /\ \E v \in 0..31 : c.b = (v * 255) \div 31
    /\ c.a = 255

\* C2 as stated: R5G6B5, SetPixelColor then GetPixelColor on Color{248,252,248,255}
\* returns Color{248,252,248,255}.
C2_RoundTrip248 ==
    (px.start = "color" /\ px.n = 2 /\ px.format = PIXELFORMAT_UNCOMPRESSED_R5G6B5
        /\ px.color0 = Color(248, 252, 248, 255))
    => px.color = px.color0

\* C2 amended: in R5G6B5 a Color whose channels are decodings of stored 5/6/5-bit
\* values (floor(v*255/max), alpha 255) is returned unchanged by SetPixelColor
\* followed by GetPixelColor; Color{248,252,248,255} is not one of them and comes
\* back as Color{246,250,246,255}.
C2_RoundTripQuantized ==
    (px.start = "color" /\ px.n = 2 /\ px.format = PIXELFORMAT_UNCOMPRESSED_R5G6B5)
    => /\ Quantized565(px.color0) => px.color = px.color0
       /\ px.color0 = Color(248, 252, 248, 255) => px.color = Color(246, 250, 246, 255)

C2_Witness ==
    /\ px.start = "color" /\ px.n = 2 /\ px.format = PIXELFORMAT_UNCOMPRESSED_R5G6B5
    /\ px.color0 = Color(246, 250, 246, 255)
    /\ px.mem = U16Bytes(Pack565(30, 62, 30))
    /\ px.color = px.color0

\* C3: for R5G6B5, R5G5B5A1 and R4G4B4A4 and every stored 16-bit pixel p,
\* GetPixelColor followed by SetPixelColor stores p again.
C3_DecodeEncode ==
    (px.start = "mem" /\ px.n = 2
        /\ px.format \in {PIXELFORMAT_UNCOMPRESSED_R5G6B5, PIXELFORMAT_UNCOMPRESSED_R5G5B5A1,
                          PIXELFORMAT_UNCOMPRESSED_R4G4B4A4})
    => px.mem = px.mem0

\* ------------------------------------------------------------------------
\* SpecDecode: one stored pixel of a narrow-channel format is read by each of
\* the three decoders, in any order
\* ------------------------------------------------------------------------
NarrowFormats == {PIXELFORMAT_UNCOMPRESSED_R5G6B5, PIXELFORMAT_UNCOMPRESSED_R5G5B5A1,
                  PIXELFORMAT_UNCOMPRESSED_R4G4B4A4}

NotRead == [read |-> FALSE]

InitDecode ==
    /\ \E format \in NarrowFormats :
          \E lo \in ByteSamples, hi \in HighByteSamples :
                px = [start |-> "mem", format |-> format, mem |-> <<lo, hi>>, color |-> BLANK,
                      mem0 |-> <<lo, hi>>, color0 |-> BLANK, n |-> 0,
                      image |-> NotRead, loaded |-> NotRead]
    /\ sz = IdleRec /\ bl = IdleRec /\ ImageIdle /\ game = IdleRec

\* the stored pixel as a 1x1 image
PixelImage == Image(px.mem, 1, 1, px.format, 1)

CallGetImageColor ==
    /\ px.image = NotRead
    /\ px' = [px EXCEPT !.image = GetImageColor(PixelImage, 0, 0)]
    /\ UNCHANGED <<sz, bl, imgVars, game>>

CallLoadImageColors ==
    /\ px.loaded = NotRead
    /\ px' = [px EXCEPT !.loaded = LoadImageColors(PixelImage, 0)[1]]
    /\ UNCHANGED <<sz, bl, imgVars, game>>

CallGetPixelColorOnce ==
    /\ px.n = 0
    /\ px' = [px EXCEPT !.color = GetPixelColor(px.mem, px.format), !.n = 1]
    /\ UNCHANGED <<sz, bl, imgVars, game>>

NextDecode == CallGetPixelColorOnce \/ CallGetImageColor \/ CallLoadImageColors

SpecDecode == InitDecode /\ [][NextDecode]_vars

\* the channels of a stored 16-bit pixel, most significant first, as
\* <<value, maximum>> pairs (R5G6B5 has no alpha channel: it reads as opaque)
Channels(pixel, format) ==
    CASE format = PIXELFORMAT_UNCOMPRESSED_R5G6B5 ->
            << <<Shr(pixel, 11), 31>>, <<LowBits(Shr(pixel, 5), 6), 63>>, <<LowBits(pixel, 5), 31>>, <<1, 1>> >>
      [] format = PIXELFORMAT_UNCOMPRESSED_R5G5B5A1 ->
            << <<Shr(pixel, 11), 31>>, <<LowBits(Shr(pixel, 6), 5), 31>>, <<LowBits(Shr(pixel, 1), 5), 31>>,
               <<LowBits(pixel, 1), 1>> >>
      [] format = PIXELFORMAT_UNCOMPRESSED_R4G4B4A4 ->
            << <<Shr(pixel, 12), 15>>, <<LowBits(Shr(pixel, 8), 4), 15>>, <<LowBits(Shr(pixel, 4), 4), 15>>,
               <<LowBits(pixel, 4), 15>> >>

\* v of max scaled linearly to 0..255
Linear(ch) == (ch[1] * 255) \div ch[2]

LinearColor(pixel, format) ==
    Color(Linear(Channels(pixel, format)[1]), Linear(Channels(pixel, format)[2]),
          Linear(Channels(pixel, format)[3]), Linear(Channels(pixel, format)[4]))

\* C15: a stored R5G6B5, R5G5B5A1 or R4G4B4A4 pixel decodes channel by
\* channel to floor(v*255/max), and GetPixelColor, GetImageColor and
\* LoadImageColors give the same Color for it
C15_NarrowDecoding ==
    ((px.format \in NarrowFormats) /\ (px.n = 1) /\ (px.image # NotRead) /\ (px.loaded # NotRead)) =>
        /\ px.color = LinearColor(U16At(px.mem, 1), px.format)
        /\ px.image = px.color
        /\ px.loaded = px.color

\* ------------------------------------------------------------------------
\* SpecBlend: ColorAlphaBlend applied to sampled destination, source and tint
\* ------------------------------------------------------------------------
RGBSamples == {<<0, 0, 0>>, <<255, 255, 255>>, <<10, 128, 250>>, <<255, 1, 127>>}
DstAlphaSamples == {0, 1, 128, 255}
SrcAlphaSamples == {0, 1, 127, 128, 254, 255}
TintAlphaSamples == {0, 128, 254, 255}

InitBlend ==
    /\ \E d \in RGBSamples, da \in DstAlphaSamples, s \in RGBSamples, sa \in SrcAlphaSamples,
          t \in RGBSamples, ta \in TintAlphaSamples :
          bl = [pc |-> "call", dst |-> Color(d[1], d[2], d[3], da), src |-> Color(s[1], s[2], s[3], sa),
                tint |-> Color(t[1], t[2], t[3], ta), out |-> WHITE]
    /\ sz = IdleRec /\ px = IdleRec /\ ImageIdle /\ game = IdleRec

CallColorAlphaBlend ==
    /\ bl.pc = "call"
    /\ bl' = [bl EXCEPT !.pc = "ret", !.out = ColorAlphaBlend(bl.dst, bl.src, bl.tint)]
    /\ UNCHANGED <<sz, px, imgVars, game>>

NextBlend == CallColorAlphaBlend

SpecBlend == InitBlend /\ [][NextBlend]_vars

\* the tinted source alpha (srcA*(tintA+1))>>8
TintedAlpha == (bl.src.a * (bl.tint.a + 1)) \div 256

\* C7: when the tinted source alpha is 0 the result is dst in all four channels;
\* when it is 255 the result is the tinted source colour, each channel being
\* (srcChannel*(tintChannel+1))>>8.
C7_BlendExtremes ==
    bl.pc = "ret" =>
        /\ TintedAlpha = 0 => bl.out = bl.dst
        /\ TintedAlpha = 255 =>
              bl.out = Color((bl.src.r * (bl.tint.r + 1)) \div 256, (bl.src.g * (bl.tint.g + 1)) \div 256,
                             (bl.src.b * (bl.tint.b + 1)) \div 256, 255)

C7_Witness ==
    /\ bl.pc = "ret" /\ TintedAlpha = 255
    /\ bl.src = Color(10, 128, 250, 255) /\ bl.tint = Color(255, 1, 127, 255)
    /\ bl.dst = Color(255, 255, 255, 128)
    /\ bl.out = Color(10, 1, 125, 255)

\* the example of C8: white with alpha 128, opaque white tint, over opaque black
C8_Example ==
    /\ bl.pc = "ret"
    /\ bl.dst = Color(0, 0, 0, 255) /\ bl.src = Color(255, 255, 255, 128) /\ bl.tint = WHITE

Within(x, y, eps) == x - y <= eps /\ y - x <= eps

\* C8 as stated: the example yields alpha 255 and every colour channel within 1 of 127.
C8_Approx127 ==
    C8_Example =>
        /\ bl.out.a = 255
        /\ Within(bl.out.r, 127, 1) /\ Within(bl.out.g, 127, 1) /\ Within(bl.out.b, 127, 1)

\* C8 amended: the example yields exactly (129,129,129,255), the value of
\* outA = (srcA1*256 + dstA*(256-srcA1))>>8 and
\* channel = ((srcC*srcA1*256 + dstC*dstA*(256-srcA1))/outA)>>8 with srcA1 = 129;
\* every colour channel is within 2 of 127.
C8_Exact129 ==
    C8_Example =>
        /\ bl.out = Color(129, 129, 129, 255)
        /\ bl.out.a = ((129 * 256 + 255 * (256 - 129)) \div 256)
        /\ bl.out.r = ((255 * 129 * 256 + 0 * 255 * (256 - 129)) \div 255) \div 256
        /\ Within(bl.out.r, 127, 2) /\ Within(bl.out.g, 127, 2) /\ Within(bl.out.b, 127, 2)

C8_Witness == C8_Example /\ bl.out = Color(129, 129, 129, 255)

\* ((srcC*alpha*256 + dstC*dstA*(256 - alpha))/outA) >> 8, before the cast to unsigned char
BlendRaw(srcC, dstC, dstA, alpha, outA) ==
    Shr((srcC * alpha * 256 + dstC * dstA * (256 - alpha)) \div outA, 8)

\* a blended channel does not wrap and lies between the tinted source
\* channel and the destination channel
ChannelInRange(srcC, tintC, dstC, outC) ==
    /\ BlendRaw(TintChannel(srcC, tintC), dstC, bl.dst.a, TintedAlpha + 1, bl.out.a) <= 255
    /\ outC >= Min(TintChannel(srcC, tintC), dstC)
    /\ outC <= Max(TintChannel(srcC, tintC), dstC)

\* C25: in ColorAlphaBlend with the tinted source alpha strictly between 0
\* and 255, every colour channel ((srcC*alpha*256 + dstC*dstA*(256-alpha))/outA)>>8
\* is at most 255 before the cast to unsigned char, so no channel wraps
\* around and the blended channel stays in the range spanned by the tinted
\* source channel and the destination channel.
C25_BlendNoWrap ==
    ((bl.pc = "ret") /\ (TintedAlpha > 0) /\ (TintedAlpha < 255) /\ (bl.out.a > 0)) =>
        /\ ChannelInRange(bl.src.r, bl.tint.r, bl.dst.r, bl.out.r)
        /\ ChannelInRange(bl.src.g, bl.tint.g, bl.dst.g, bl.out.g)
        /\ ChannelInRange(bl.src.b, bl.tint.b, bl.dst.b, bl.out.b)

\* ------------------------------------------------------------------------
\* Images the operations are applied to
\* ------------------------------------------------------------------------
FloatFormats == {PIXELFORMAT_UNCOMPRESSED_R32, PIXELFORMAT_UNCOMPRESSED_R32G32B32,
                 PIXELFORMAT_UNCOMPRESSED_R32G32B32A32}

\* float element j of a float image: 1.0, 0.5, 0.0, 1.0, ...
SampleFloat(j) == IF j % 3 = 0 THEN F32_1_0 ELSE IF j % 3 = 1 THEN F32DivInt(1, 2) ELSE 0

\* n bytes of pixel data: a byte pattern, or floats in [0,1] for the 32-bit float formats
SampleData(format, n, seed) ==
    IF format \in FloatFormats
    THEN [j \in 1..n |-> F32Bytes(SampleFloat(seed + ((j - 1) \div 4)))[((j - 1) % 4) + 1]]
    ELSE [j \in 1..n |-> (seed + 37 * (j - 1)) % 256]

\* an image whose buffer holds all its mipmap levels
SampleImage(width, height, format, mipmaps, seed) ==
    Image(SampleData(format, MipChainSize(width, height, format, mipmaps), seed),
          width, height, format, mipmaps)

Seeds == {133, 200}

SampleImages(sides, formats, mips, seeds) ==
    {SampleImage(w, h, f, m, s) : w \in sides, h \in sides, f \in formats, m \in mips, s \in seeds}

\* the image before the last operation, and the last operation
Before == old[Len(old)]
LastOp == ops[Len(ops)]
Applied(name) == (Len(ops) > 0) /\ (LastOp.name = name)

\* pixel (x, y) of an uncompressed image, as stored
PixelAt(img, x, y) ==
    BytesAt(img.data, (y * img.width + x) * FormatPixelSize(img.format), FormatPixelSize(img.format))

\* ------------------------------------------------------------------------
\* Specification SpecFormat: ImageFormat applied to an image, up to MaxOps times
\* ------------------------------------------------------------------------
InitFormat ==
    /\ image \in SampleImages(1..MaxDim, PixelFormats, {1, 2}, Seeds) \cup {NoImage}
    /\ old = <<>> /\ ops = <<>> /\ ub = FALSE
    /\ sz = IdleRec /\ px = IdleRec /\ bl = IdleRec /\ heap = IdleRec /\ game = IdleRec

CallImageFormat ==
    /\ Len(ops) < MaxOps
    /\ \E newFormat \in {0} \cup PixelFormats :
          /\ image' = ImageFormat(image, newFormat)
          /\ ops' = Append(ops, [name |-> "ImageFormat", newFormat |-> newFormat])
    /\ old' = Append(old, image)
    /\ UNCHANGED <<sz, px, bl, ub, heap, game>>

NextFormat == CallImageFormat

SpecFormat == InitFormat /\ [][NextFormat]_vars

\* C4: ImageFormat(image, newFormat) leaves the image unchanged when
\* newFormat equals the current format, when newFormat is 0, or when either
\* the current or the requested format is a compressed one; consequently
\* converting to a format F twice gives the same image as converting once.
C4_FormatNoOp ==
    Applied("ImageFormat") =>
        /\ (  \/ LastOp.newFormat = Before.format
              \/ LastOp.newFormat = 0
              \/ Before.format \in CompressedFormats
              \/ LastOp.newFormat \in CompressedFormats) => (image = Before)
        /\ ((Len(ops) >= 2) /\ (ops[Len(ops) - 1].newFormat = LastOp.newFormat)) => (image = Before)

\* a second conversion to the same uncompressed format, after a first one that
\* changed the image
C4_Witness ==
    /\ Len(ops) >= 2
    /\ ops[Len(ops) - 1].newFormat = LastOp.newFormat
    /\ LastOp.newFormat \in UncompressedFormats
    /\ old[Len(old) - 1] # Before
    /\ image = Before

\* pixel (x, y) of an uncompressed image as a 1x1 image of its own
OnePixel(img, x, y) == Image(PixelAt(img, x, y), 1, 1, img.format, 1)

\* the float elements of pixel (x, y) of a 32-bit float image, scaled to bytes,
\* channel by channel (absent colour channels read 0, absent alpha 255)
FloatPixelColor(img, x, y) ==
    Color(F32ToByte(F32At(PixelAt(img, x, y), 1)),
          IF img.format = PIXELFORMAT_UNCOMPRESSED_R32 THEN 0 ELSE F32ToByte(F32At(PixelAt(img, x, y), 5)),
          IF img.format = PIXELFORMAT_UNCOMPRESSED_R32 THEN 0 ELSE F32ToByte(F32At(PixelAt(img, x, y), 9)),
          IF img.format = PIXELFORMAT_UNCOMPRESSED_R32G32B32A32
          THEN F32ToByte(F32At(PixelAt(img, x, y), 13)) ELSE 255)

\* C16: ImageFormat between two uncompressed formats writes, as pixel i of the
\* result, the re-encoding of the stored element(s) of pixel i of the source
\* (what converting that pixel alone gives), for every pixel and every source
\* format including R32, R32G32B32 and R32G32B32A32; LoadImageColors of the
\* source decodes pixel i from pixel i as well, each channel of a float
\* pixel from its own element.
C16_PixelwiseDecode ==
    (Applied("ImageFormat") /\ ~IsEmptyImage(Before)
        /\ (Before.format \in UncompressedFormats) /\ (LastOp.newFormat \in UncompressedFormats)
        /\ (LastOp.newFormat # Before.format)) =>
        \A x \in 0..(Before.width - 1), y \in 0..(Before.height - 1) :
            /\ PixelAt(image, x, y) = ImageFormat(OnePixel(Before, x, y), LastOp.newFormat).data
            /\ LoadImageColors(Before, 0)[y * Before.width + x + 1]
                   = LoadImageColors(OnePixel(Before, x, y), 0)[1]
            /\ (Before.format \in FloatFormats) =>
                   (LoadImageColors(Before, 0)[y * Before.width + x + 1] = FloatPixelColor(Before, x, y))

\* ------------------------------------------------------------------------
\* Specification SpecResizeNN: ImageResizeNN applied up to MaxOps times
\* ------------------------------------------------------------------------
\* bytes an uninitialised read may give: only a compressed image causes one
GarbageFor(img) == IF img.format \in CompressedFormats THEN Garbage ELSE {0}

InitResizeNN ==
    /\ image \in SampleImages(1..MaxDim, UncompressedFormats \cup {PIXELFORMAT_COMPRESSED_DXT1_RGB}, {1, 2}, Seeds)
                 \cup {NoImage}
    /\ old = <<>> /\ ops = <<>> /\ ub = FALSE
    /\ sz = IdleRec /\ px = IdleRec /\ bl = IdleRec /\ heap = IdleRec /\ game = IdleRec

CallImageResizeNN ==
    /\ Len(ops) < MaxOps
    /\ ~ub
    /\ \E newWidth \in 1..MaxDim, newHeight \in 1..MaxDim, garbage \in GarbageFor(image) :
          LET res == ImageResizeNN(image, newWidth, newHeight, garbage)
          IN  /\ image' = res.image
              /\ ub' = res.ub
              /\ ops' = Append(ops, [name |-> "ImageResizeNN", newWidth |-> newWidth,
                                     newHeight |-> newHeight])
    /\ old' = Append(old, image)
    /\ UNCHANGED <<sz, px, bl, heap, game>>

NextResizeNN == CallImageResizeNN

SpecResizeNN == InitResizeNN /\ [][NextResizeNN]_vars

\* C5: after ImageResizeNN(image, newW, newH) on a non-empty image in an
\* uncompressed format the image has width newW, height newH, its original
\* format and a buffer of exactly newW*newH*bpp/8 bytes; this holds after
\* every resize, in particular after a second one back to the original size.
C5_ResizeNNShape ==
    (Applied("ImageResizeNN") /\ ~IsEmptyImage(Before) /\ (Before.format \in UncompressedFormats)) =>
        /\ ~ub
        /\ image.width = LastOp.newWidth
        /\ image.height = LastOp.newHeight
        /\ image.format = Before.format
        /\ Len(image.data) = (LastOp.newWidth * LastOp.newHeight * BitsPerPixel(Before.format)) \div 8

\* a resize to another size followed by a resize back to the original size
C5_Witness ==
    /\ Len(ops) = 2
    /\ old[1].format = PIXELFORMAT_UNCOMPRESSED_R5G6B5
    /\ (old[2].width # old[1].width) /\ (old[2].height # old[1].height)
    /\ (image.width = old[1].width) /\ (image.height = old[1].height)
    /\ Len(image.data) = 2 * image.width * image.height

\* ------------------------------------------------------------------------
\* Specification SpecNearest: the source pixel ImageResizeNN reads for each
\* output pixel, one iteration of its loops at a time
\* ------------------------------------------------------------------------
MaxOldSide == 3     \* the image is at most MaxOldSide x 2 pixels
MaxUpscale == 257   \* the largest new width

NewWidths == {1, 2, 3, MaxUpscale - 1, MaxUpscale}
NewHeights == {1, 2, 5}

\* xRatio, yRatio of ImageResizeNN
NearestRatio(side, newSide) == (Shl(side, 16) \div newSide) + 1

InitNearest ==
    /\ sz \in [pc : {"loop"}, width : 1..MaxOldSide, height : 1..2,
               newWidth : NewWidths, newHeight : NewHeights,
               x : {0}, y : {0}, read : {FALSE}, x2 : {0}, y2 : {0}]
    /\ px = IdleRec /\ bl = IdleRec /\ ImageIdle /\ game = IdleRec

\* one iteration of the inner loop: x2, y2 for output pixel (x, y)
ResizeNNPixel ==
    /\ sz.pc = "loop"
    /\ sz.y < sz.newHeight
    /\ LET xRatio == NearestRatio(sz.width, sz.newWidth)
           yRatio == NearestRatio(sz.height, sz.newHeight)
           last   == (sz.x + 1 = sz.newWidth)
       IN  sz' = [sz EXCEPT !.read = TRUE,
                            !.x2 = Shr(sz.x * xRatio, 16),
                            !.y2 = Shr(sz.y * yRatio, 16),
                            !.x = IF last THEN 0 ELSE sz.x + 1,
                            !.y = IF last THEN sz.y + 1 ELSE sz.y]
    /\ UNCHANGED <<px, bl, image, old, ops, ub, heap, game>>

NextNearest == ResizeNNPixel

SpecNearest == InitNearest /\ [][NextNearest]_vars

\* C26: the source coordinates x2 = (x*xRatio)>>16 and y2 = (y*yRatio)>>16
\* of ImageResizeNN satisfy 0 <= x2 < old width and 0 <= y2 < old height for
\* every output pixel and all positive sizes, a width of 1 resized to 257
\* included.
C26_NearestInRange ==
    ((sz.pc = "loop") /\ sz.read) =>
        /\ (0 <= sz.x2) /\ (sz.x2 < sz.width)
        /\ (0 <= sz.y2) /\ (sz.y2 < sz.height)

\* ------------------------------------------------------------------------
\* Specification SpecCrop: one ImageCrop of an image
\* ------------------------------------------------------------------------
CropFormats == {PIXELFORMAT_UNCOMPRESSED_GRAYSCALE, PIXELFORMAT_UNCOMPRESSED_R5G6B5,
                PIXELFORMAT_UNCOMPRESSED_R8G8B8, PIXELFORMAT_UNCOMPRESSED_R8G8B8A8,
                PIXELFORMAT_UNCOMPRESSED_R32G32B32A32, PIXELFORMAT_COMPRESSED_DXT1_RGB}

InitCrop ==
    /\ image \in SampleImages(1..MaxCropSide, CropFormats, {1, 2}, {133}) \cup {NoImage}
    /\ old = <<>> /\ ops = <<>> /\ ub = FALSE
    /\ sz = IdleRec /\ px = IdleRec /\ bl = IdleRec /\ heap = IdleRec /\ game = IdleRec

CallImageCrop ==
    /\ ops = <<>>
    /\ \E x \in (-2)..(MaxCropSide + 1), y \in (-2)..(MaxCropSide + 1),
          width \in 0..(MaxCropSide + 1), height \in 0..(MaxCropSide + 1), garbage \in Garbage :
          LET res == ImageCrop(image, Rectangle(x, y, width, height), garbage)
          IN  /\ image' = res.image
              /\ ub' = res.ub
              /\ ops' = <<[name |-> "ImageCrop", crop |-> Rectangle(x, y, width, height)]>>
    /\ old' = <<image>>
    /\ UNCHANGED <<sz, px, bl, heap, game>>

NextCrop == CallImageCrop

SpecCrop == InitCrop /\ [][NextCrop]_vars

\* the part of a rectangle that lies inside an image
Inside(img, rec) ==
    LET x0 == Max(rec.x, 0)
        y0 == Max(rec.y, 0)
    IN  Rectangle(x0, y0, Min(rec.x + rec.width, img.width) - x0, Min(rec.y + rec.height, img.height) - y0)

Overlaps(img, rec) == (Inside(img, rec).width > 0) /\ (Inside(img, rec).height > 0)

\* C10: ImageCrop with a rectangle that overlaps an uncompressed image
\* replaces it by a tightly packed image of the clamped width and height, of
\* the same format, whose pixel (i, j) is the original pixel (x0+i, y0+j),
\* (x0, y0) being the clamped origin.
C10_CropClamped ==
    (Applied("ImageCrop") /\ (Before.format \in UncompressedFormats) /\ Overlaps(Before, LastOp.crop)) =>
        LET c == Inside(Before, LastOp.crop)
        IN  /\ ~ub
            /\ image.width = c.width
            /\ image.height = c.height
            /\ image.format = Before.format
            /\ Len(image.data) = c.width * c.height * FormatPixelSize(image.format)
            /\ \A i \in 0..(c.width - 1), j \in 0..(c.height - 1) :
                  PixelAt(image, i, j) = PixelAt(Before, c.x + i, c.y + j)

\* a crop rectangle that sticks out of the image on the right and at the
\* bottom and keeps a 2x2 block that does not start at the origin
C10_Witness ==
    /\ Applied("ImageCrop")
    /\ Before.format = PIXELFORMAT_UNCOMPRESSED_R8G8B8A8
    /\ (Before.width = 3) /\ (Before.height = 3)
    /\ LastOp.crop = Rectangle(1, 1, 4, 4)
    /\ (image.width = 2) /\ (image.height = 2)
    /\ PixelAt(image, 1, 1) = PixelAt(Before, 2, 2)

\* a rectangle of positive size that lies entirely to the left of, above, to
\* the right of or below an image; one that starts at the right or bottom
\* edge only touches the image
EntirelyOutside(img, rec) ==
    /\ (rec.width > 0) /\ (rec.height > 0)
    /\ \/ rec.x + rec.width <= 0
       \/ rec.y + rec.height <= 0
       \/ rec.x >= img.width
       \/ rec.y >= img.height

\* C17: ImageCrop leaves the image unchanged when the crop rectangle lies
\* entirely outside the image (to the left, above, to the right or below,
\* touching the right or bottom edge included) or the format is compressed;
\* the width and height of the image never become zero or negative.
C17_CropOutside ==
    (Applied("ImageCrop") /\ ~IsEmptyImage(Before)) =>
        /\ (EntirelyOutside(Before, LastOp.crop) \/ (Before.format \in CompressedFormats)) =>
               (~ub /\ (image = Before))
        /\ ~ub => ((image.width > 0) /\ (image.height > 0))

\* ------------------------------------------------------------------------
\* Specification SpecDraw: one ImageDraw of a source image into a destination
\* ------------------------------------------------------------------------
DrawFormats == {PIXELFORMAT_UNCOMPRESSED_GRAYSCALE, PIXELFORMAT_UNCOMPRESSED_R5G6B5,
                PIXELFORMAT_UNCOMPRESSED_R8G8B8, PIXELFORMAT_UNCOMPRESSED_R8G8B8A8}

DrawTints == {WHITE, Color(255, 255, 255, 128), Color(255, 0, 0, 255)}

\* source rectangles tried on a source image: all of it, and its first pixel
SrcRecs(src) == {Rectangle(0, 0, src.width, src.height), Rectangle(0, 0, 1, 1)}

\* sizes of the destination rectangle: the source rectangle's (no resampling) or 1x2
DstSizes(srcRec) == {<<srcRec.width, srcRec.height>>, <<1, 2>>}

\* bytes the resampler may give: it only runs when the sizes differ
Resampled(srcRec, size) == IF size = <<srcRec.width, srcRec.height>> THEN {0} ELSE {0, 255}

InitDraw ==
    /\ image \in SampleImages(MaxDim..(MaxDim + 1), DrawFormats, {1}, {133})
    /\ old = <<>> /\ ops = <<>> /\ ub = FALSE
    /\ sz = IdleRec /\ px = IdleRec /\ bl = IdleRec /\ heap = IdleRec /\ game = IdleRec

CallImageDraw ==
    /\ ops = <<>>
    /\ \E src \in SampleImages(1..MaxDim, DrawFormats, {1}, {170}), tint \in DrawTints,
          x \in (-1)..MaxDim, y \in (-1)..MaxDim :
          \E srcRec \in SrcRecs(src) :
             \E size \in DstSizes(srcRec), garbage \in {0} :
              \E resampled \in Resampled(srcRec, size) :
                LET dstRec == Rectangle(x, y, size[1], size[2])
                    res == ImageDraw(image, src, srcRec, dstRec, tint, resampled, garbage)
                IN  /\ image' = res.image
                    /\ ub' = res.ub
                    /\ ops' = <<[name |-> "ImageDraw", src |-> src, srcRec |-> srcRec,
                                 dstRec |-> dstRec, tint |-> tint, resampled |-> resampled,
                                 garbage |-> garbage]>>
    /\ old' = <<image>>
    /\ UNCHANGED <<sz, px, bl, heap, game>>

NextDraw == CallImageDraw

SpecDraw == InitDraw /\ [][NextDraw]_vars

\* the whole source is pasted, unscaled, inside a larger destination
PastedInside(dst, o) ==
    /\ o.srcRec = Rectangle(0, 0, o.src.width, o.src.height)
    /\ (o.dstRec.width = o.src.width) /\ (o.dstRec.height = o.src.height)
    /\ (o.src.width < dst.width) /\ (o.src.height < dst.height)
    /\ (o.dstRec.x >= 0) /\ (o.dstRec.x + o.dstRec.width <= dst.width)
    /\ (o.dstRec.y >= 0) /\ (o.dstRec.y + o.dstRec.height <= dst.height)

AlphaLess == {PIXELFORMAT_UNCOMPRESSED_GRAYSCALE, PIXELFORMAT_UNCOMPRESSED_R8G8B8,
              PIXELFORMAT_UNCOMPRESSED_R5G6B5}

\* C6: in ImageDraw with tint = opaque white and source and destination in
\* the same alpha-less format (Grayscale, R8G8B8 or R5G6B5), the row-copy
\* fast path leaves exactly the destination bytes the per-pixel path
\* (GetPixelColor, ColorAlphaBlend, SetPixelColor) would leave, for a source
\* pasted inside a larger destination.
C6_FastPathEqualsPerPixel ==
    (   /\ Applied("ImageDraw")
        /\ LastOp.tint = WHITE
        /\ LastOp.src.format = Before.format
        /\ Before.format \in AlphaLess
        /\ PastedInside(Before, LastOp)) =>
        image = DrawPerPixel(Before, DrawSetup(Before, LastOp.src, LastOp.srcRec, LastOp.dstRec,
                                               LastOp.resampled, LastOp.garbage),
                             WHITE, TRUE, LastOp.garbage).image

\* C21: ImageDraw skips the per-pixel blend only when the tint alpha is 255,
\* the source format has no alpha channel and source and destination have
\* the same format; in every other case each written destination pixel is
\* SetPixelColor of ColorAlphaBlend(decoded dst, decoded src, tint), so the
\* colour channels of the tint are applied to the source.
C21_BlendUnlessFastPath ==
    (   /\ Applied("ImageDraw")
        /\ PastedInside(Before, LastOp)
        /\ ~(   /\ LastOp.tint.a = 255
                /\ LastOp.src.format \in AlphaLess
                /\ LastOp.src.format = Before.format)) =>
        image = DrawPerPixel(Before, DrawSetup(Before, LastOp.src, LastOp.srcRec, LastOp.dstRec,
                                               LastOp.resampled, LastOp.garbage),
                             LastOp.tint, TRUE, LastOp.garbage).image

\* ------------------------------------------------------------------------
\* Specification SpecRect: one ImageDrawRectangleRec on an image
\* ------------------------------------------------------------------------
RectFormats == {PIXELFORMAT_UNCOMPRESSED_GRAYSCALE, PIXELFORMAT_UNCOMPRESSED_R5G6B5,
                PIXELFORMAT_UNCOMPRESSED_R8G8B8A8, PIXELFORMAT_UNCOMPRESSED_R32}

RectColors == {Color(1, 2, 3, 4), Color(230, 41, 55, 255)}

InitRect ==
    /\ image \in SampleImages({MaxDim, 10}, RectFormats, {1}, {133}) \cup {NoImage}
    /\ old = <<>> /\ ops = <<>> /\ ub = FALSE
    /\ sz = IdleRec /\ px = IdleRec /\ bl = IdleRec /\ heap = IdleRec /\ game = IdleRec

CallImageDrawRectangleRec ==
    /\ ops = <<>>
    /\ \E x \in (-2)..MaxDim, y \in (-2)..MaxDim, width \in 0..5, height \in 0..5,
          color \in RectColors, garbage \in {0} :
          LET res == ImageDrawRectangleRec(image, Rectangle(x, y, width, height), color, garbage)
          IN  /\ image' = res.image
              /\ ub' = res.ub
              /\ ops' = <<[name |-> "ImageDrawRectangleRec", rec |-> Rectangle(x, y, width, height),
                           color |-> color]>>
    /\ old' = <<image>>
    /\ UNCHANGED <<sz, px, bl, heap, game>>

NextRect == CallImageDrawRectangleRec

SpecRect == InitRect /\ [][NextRect]_vars

\* the pixels of an image whose bytes differ from those of another image of the same shape
ChangedPixels(before, after) ==
    {p \in (0..(before.width - 1)) \X (0..(before.height - 1)) :
        PixelAt(after, p[1], p[2]) # PixelAt(before, p[1], p[2])}

InRect(rec, p) ==
    (p[1] >= rec.x) /\ (p[1] < rec.x + rec.width) /\ (p[2] >= rec.y) /\ (p[2] < rec.y + rec.height)

\* C9: ImageDrawRectangleRec shrinks a rectangle with a negative origin by
\* the overhang: for a rectangle with negative x and/or y origin whose far
\* edges lie inside the image no pixel outside the rectangle changes and the
\* buffer is not overrun; on a 10x10 R8G8B8A8 image the rectangle
\* (-2, 0, 5, 5) changes exactly 15 pixels.
C9_RectClamped ==
    (   /\ Applied("ImageDrawRectangleRec")
        /\ ~IsEmptyImage(Before)
        /\ (LastOp.rec.x < 0) \/ (LastOp.rec.y < 0)
        /\ LastOp.rec.x + LastOp.rec.width <= Before.width
        /\ LastOp.rec.y + LastOp.rec.height <= Before.height) =>
        /\ ~ub
        /\ \A p \in ChangedPixels(Before, image) : InRect(LastOp.rec, p)
        /\ (   /\ Before.width = 10 /\ Before.height = 10
               /\ Before.format = PIXELFORMAT_UNCOMPRESSED_R8G8B8A8
               /\ LastOp.rec = Rectangle(-2, 0, 5, 5)) => (Cardinality(ChangedPixels(Before, image)) = 15)

\* the image after the bounds-checked ImageDrawPixel(dst, x, y, color) for
\* every pixel (x, y) of a rectangle: the pixels of the rectangle that lie
\* in the image hold the encoded colour, every other byte is as before
EachPixelDrawn(dst, rec, color) ==
    [dst EXCEPT !.data =
        [j \in 1..Len(dst.data) |->
            IF InRect(rec, << ((j - 1) \div FormatPixelSize(dst.format)) % dst.width,
                              ((j - 1) \div FormatPixelSize(dst.format)) \div dst.width >>)
            THEN DrawPixelBytes(color, dst.format)[((j - 1) % FormatPixelSize(dst.format)) + 1]
            ELSE dst.data[j]]]

\* C24: the row fill of ImageDrawRectangleRec (first pixel of each row by
\* ImageDrawPixel, then copied across the row) leaves the image as calling
\* the bounds-checked ImageDrawPixel for every pixel of the rectangle would,
\* for every rectangle position and size, also when the rectangle extends
\* past the right or bottom edge of the image or starts beyond it.
C24_RowFillEqualsPerPixel ==
    (Applied("ImageDrawRectangleRec") /\ ~IsEmptyImage(Before)) =>
        /\ ~ub
        /\ image = EachPixelDrawn(Before, LastOp.rec, LastOp.color)

\* ------------------------------------------------------------------------
\* Specification SpecCanvas: one ImageResizeCanvas of an image
\* ------------------------------------------------------------------------
CanvasFormats == {PIXELFORMAT_UNCOMPRESSED_GRAYSCALE, PIXELFORMAT_UNCOMPRESSED_R5G6B5,
                  PIXELFORMAT_UNCOMPRESSED_R8G8B8A8, PIXELFORMAT_COMPRESSED_DXT1_RGB}

\* offsets from well to the left of the image to beyond the largest new canvas
CanvasOffsets == (-(MaxDim + 1))..(MaxDim + 2)

InitCanvas ==
    /\ image \in SampleImages(1..MaxDim, CanvasFormats, {1, 2}, {133}) \cup {NoImage}
    /\ old = <<>> /\ ops = <<>> /\ ub = FALSE
    /\ sz = IdleRec /\ px = IdleRec /\ bl = IdleRec /\ heap = IdleRec /\ game = IdleRec

CallImageResizeCanvas ==
    /\ ops = <<>>
    /\ \E newWidth \in 1..(MaxDim + 1), newHeight \in 1..(MaxDim + 1),
          offsetX \in CanvasOffsets, offsetY \in CanvasOffsets, fill \in {BLANK, WHITE} :
          /\ image' = ImageResizeCanvas(image, newWidth, newHeight, offsetX, offsetY, fill, 0).image
          /\ ub' = ImageResizeCanvas(image, newWidth, newHeight, offsetX, offsetY, fill, 0).ub
          /\ ops' = <<[name |-> "ImageResizeCanvas", newWidth |-> newWidth, newHeight |-> newHeight,
                       offsetX |-> offsetX, offsetY |-> offsetY, fill |-> fill]>>
    /\ old' = <<image>>
    /\ UNCHANGED <<sz, px, bl, heap, game>>

NextCanvas == CallImageResizeCanvas

SpecCanvas == InitCanvas /\ [][NextCanvas]_vars

\* (x, y) lies inside an image
InBounds(img, x, y) == (x >= 0) /\ (x < img.width) /\ (y >= 0) /\ (y < img.height)

\* C18: ImageResizeCanvas on an uncompressed image yields an image of the
\* new width and height and the same format whose pixel (x, y) is the old
\* pixel (x - offsetX, y - offsetY) where that lies inside the old image and
\* all-zero bytes elsewhere, whatever the fill colour, for every positive new
\* size and every offset (negative, zero, or beyond the new canvas).
C18_CanvasShift ==
    (Applied("ImageResizeCanvas") /\ ~IsEmptyImage(Before) /\ (Before.format \in UncompressedFormats)) =>
        /\ ~ub
        /\ image.width = LastOp.newWidth
        /\ image.height = LastOp.newHeight
        /\ image.format = Before.format
        /\ \A x \in 0..(LastOp.newWidth - 1), y \in 0..(LastOp.newHeight - 1) :
              PixelAt(image, x, y) =
                  IF InBounds(Before, x - LastOp.offsetX, y - LastOp.offsetY)
                  THEN PixelAt(Before, x - LastOp.offsetX, y - LastOp.offsetY)
                  ELSE ZeroBytes(FormatPixelSize(Before.format))

\* ------------------------------------------------------------------------
\* Specification SpecBuffer: the operations that hand back or replace a buffer,
\* applied to images with one or two mipmap levels
\* ------------------------------------------------------------------------
BufferFormats == {PIXELFORMAT_UNCOMPRESSED_GRAYSCALE, PIXELFORMAT_UNCOMPRESSED_R8G8B8A8}

InitBuffer ==
    /\ image \in SampleImages({MaxDim}, BufferFormats, {1, 2}, {133})
    /\ old = <<>> /\ ops = <<>> /\ ub = FALSE
    /\ sz = IdleRec /\ px = IdleRec /\ bl = IdleRec /\ heap = IdleRec /\ game = IdleRec

\* newImage = ImageCopy(image): the copy is the image looked at from then on
CallImageCopy ==
    /\ ops = <<>>
    /\ image' = ImageCopy(image, 0).image
    /\ ub' = ImageCopy(image, 0).ub
    /\ ops' = <<[name |-> "ImageCopy"]>>
    /\ old' = <<image>>
    /\ UNCHANGED <<sz, px, bl, heap, game>>

CallImageResize ==
    /\ ops = <<>>
    /\ \E newWidth \in 1..MaxDim, newHeight \in 1..MaxDim, resampled \in {0, 255} :
          /\ image' = ImageResize(image, newWidth, newHeight, resampled, 0)
          /\ ops' = <<[name |-> "ImageResize", newWidth |-> newWidth, newHeight |-> newHeight]>>
    /\ old' = <<image>>
    /\ UNCHANGED <<sz, px, bl, ub, heap, game>>

NextBuffer ==
    \/ CallImageCopy
    \/ CallImageCrop
    \/ CallImageFormat
    \/ CallImageResizeNN
    \/ CallImageResize
    \/ CallImageResizeCanvas

SpecBuffer == InitBuffer /\ [][NextBuffer]_vars

\* the ImageBuffer size invariant: the buffer holds exactly the mipmap levels
SizeInvariant(img) == Len(img.data) = MipChainSize(img.width, img.height, img.format, img.mipmaps)

\* C13: if before ImageCopy, ImageCrop, ImageFormat, ImageResizeNN,
\* ImageResize or ImageResizeCanvas the buffer length equals the sum over the
\* mipmap levels of GetPixelDataSize at the level's halved dimensions, the
\* same holds for the width, height, format and mipmaps of the resulting
\* image, in particular for an input with mipmaps > 1.
C13_SizeInvariant ==
    ((Len(ops) > 0) /\ ~ub /\ SizeInvariant(Before)) => SizeInvariant(image)

\* ------------------------------------------------------------------------
\* Specification SpecBlit: one ImageDraw with source and destination
\* rectangles of any origin, between images that may be empty
\* ------------------------------------------------------------------------
\* images the security checks turn away: nothing at all, data but no width, a size but no data
EmptyImages == {NoImage, Image(<< 133 >>, 0, 1, PIXELFORMAT_UNCOMPRESSED_GRAYSCALE, 1),
                Image(NULL, 1, 1, PIXELFORMAT_UNCOMPRESSED_GRAYSCALE, 1)}

BlitDsts == SampleImages({MaxDim}, {PIXELFORMAT_UNCOMPRESSED_GRAYSCALE, PIXELFORMAT_UNCOMPRESSED_R8G8B8A8,
                                    PIXELFORMAT_COMPRESSED_DXT1_RGB}, {1}, {133})
            \cup EmptyImages

BlitSrcs == SampleImages({MaxDim + 1}, {PIXELFORMAT_UNCOMPRESSED_GRAYSCALE}, {1}, {170}) \cup EmptyImages

\* origins to the left of, inside and beyond the images; sizes from one pixel to the whole source
BlitSrcRecs == {Rectangle(x, y, w, h) : x \in {-1, 0, 1, MaxDim + 2}, y \in {0, 1},
                                        w \in 1..(MaxDim + 1), h \in 1..2}

BlitDstOrigins == {-1, 0, 1, MaxDim + 1} \X {-1, 0}

\* sizes of the destination rectangle: the source rectangle's, an empty one, a different one
BlitDstSizes(srcRec) == {<<srcRec.width, srcRec.height>>, <<0, 1>>, <<1, 2>>}

InitBlit ==
    /\ image \in BlitDsts
    /\ old = <<>> /\ ops = <<>> /\ ub = FALSE
    /\ sz = IdleRec /\ px = IdleRec /\ bl = IdleRec /\ heap = IdleRec /\ game = IdleRec

CallImageDrawRec ==
    /\ ops = <<>>
    /\ \E src \in BlitSrcs, srcRec \in BlitSrcRecs, origin \in BlitDstOrigins,
          tint \in {WHITE, Color(255, 255, 255, 128)} :
          \E size \in BlitDstSizes(srcRec) :
             /\ image' = ImageDraw(image, src, srcRec, Rectangle(origin[1], origin[2], size[1], size[2]),
                                   tint, 0, 0).image
             /\ ub' = ImageDraw(image, src, srcRec, Rectangle(origin[1], origin[2], size[1], size[2]),
                                tint, 0, 0).ub
             /\ ops' = <<[name |-> "ImageDraw", src |-> src, srcRec |-> srcRec,
                          dstRec |-> Rectangle(origin[1], origin[2], size[1], size[2]), tint |-> tint,
                          resampled |-> 0, garbage |-> 0]>>
    /\ old' = <<image>>
    /\ UNCHANGED <<sz, px, bl, heap, game>>

NextBlit == CallImageDrawRec

SpecBlit == InitBlit /\ [][NextBlit]_vars

\* the allocations a statement sequence reaches when the pointer variables in
\* nulls are NULL on entry
RECURSIVE Mallocs(_, _)
Mallocs(stmts, nulls) ==
    IF stmts = <<>> THEN <<>>
    ELSE IF Head(stmts).op = "malloc" THEN << Head(stmts) >> \o Mallocs(Tail(stmts), nulls)
    ELSE IF Head(stmts).op = "ifnotnull"
    THEN (IF Head(stmts).var \in nulls THEN <<>> ELSE Mallocs(Head(stmts).body, nulls))
         \o Mallocs(Tail(stmts), nulls)
    ELSE Mallocs(Tail(stmts), nulls)

\* the pointer arguments of the last ImageDraw that are NULL
NullArgs == (IF Before.data = NULL THEN {"dst.data"} ELSE {})
            \cup (IF LastOp.src.data = NULL THEN {"src.data"} ELSE {})

\* C14: ImageDraw leaves the destination image (bytes, width, height,
\* format) unchanged and allocates nothing when the destination or the source
\* is empty (null data, zero width or zero height) or the destination format
\* is compressed.
C14_DrawNoOp ==
    (   /\ Applied("ImageDraw")
        /\ \/ IsEmptyImage(Before)
           \/ IsEmptyImage(LastOp.src)
           \/ Before.format \in CompressedFormats) =>
        /\ image = Before
        /\ ~ub
        /\ Mallocs(ImageDrawMem("dst.data", "src.data", Before, LastOp.src, LastOp.srcRec, LastOp.dstRec),
                   NullArgs) = <<>>

\* a call that would resample the source is turned away because the
\* destination is compressed
C14_Witness ==
    /\ Applied("ImageDraw")
    /\ Before.format = PIXELFORMAT_COMPRESSED_DXT1_RGB
    /\ ~IsEmptyImage(LastOp.src)
    /\ LastOp.srcRec = Rectangle(0, 0, MaxDim + 1, 2)
    /\ LastOp.dstRec = Rectangle(0, 0, 1, 2)
    /\ image = Before

\* the image the row loop of the last ImageDraw reads from has a width (with
\* none, bytesPerPixelSrc is a division by zero before any row is touched)
SourceHasWidth ==
    DrawSetup(Before, LastOp.src, LastOp.srcRec, LastOp.dstRec, LastOp.resampled, LastOp.garbage).src.width # 0

\* C19: for every source and destination rectangle ImageDraw on non-empty
\* uncompressed images reads only inside the source buffer, writes only
\* inside the destination buffer and copies rows of non-negative length.
C19_DrawInBounds ==
    (   /\ Applied("ImageDraw")
        /\ ~IsEmptyImage(Before) /\ ~IsEmptyImage(LastOp.src)
        /\ Before.format \in UncompressedFormats
        /\ LastOp.src.format \in UncompressedFormats
        /\ SourceHasWidth) => ~ub

\* the coordinates are those of a pixel of the image
InImage(img, x, y) == (x >= 0) /\ (x < img.width) /\ (y >= 0) /\ (y < img.height)

\* C20: in ImageDraw without resampling every destination pixel (dx, dy) that
\* is written holds source pixel (srcX + dx - dstX, srcY + dy - dstY), with
\* (srcX, srcY) the origin of the clamped source rectangle and (dstX, dstY)
\* the origin of the caller's destination rectangle; checked on the row-copy
\* path (grayscale onto grayscale, opaque white tint), where a written pixel
\* is a copy of its source pixel.
C20_DrawCorrespondence ==
    (   /\ Applied("ImageDraw")
        /\ ~IsEmptyImage(Before) /\ ~IsEmptyImage(LastOp.src)
        /\ Before.format = PIXELFORMAT_UNCOMPRESSED_GRAYSCALE
        /\ LastOp.src.format = PIXELFORMAT_UNCOMPRESSED_GRAYSCALE
        /\ LastOp.tint = WHITE
        /\ DrawSrcClamp(LastOp.src, LastOp.srcRec).width = LastOp.dstRec.width
        /\ DrawSrcClamp(LastOp.src, LastOp.srcRec).height = LastOp.dstRec.height
        /\ ~ub) =>
        \A dx \in 0..(Before.width - 1), dy \in 0..(Before.height - 1) :
            (PixelAt(image, dx, dy) # PixelAt(Before, dx, dy)) =>
                /\ InImage(LastOp.src,
                           DrawSrcClamp(LastOp.src, LastOp.srcRec).x + dx - LastOp.dstRec.x,
                           DrawSrcClamp(LastOp.src, LastOp.srcRec).y + dy - LastOp.dstRec.y)
                /\ PixelAt(image, dx, dy) =
                       PixelAt(LastOp.src,
                               DrawSrcClamp(LastOp.src, LastOp.srcRec).x + dx - LastOp.dstRec.x,
                               DrawSrcClamp(LastOp.src, LastOp.srcRec).y + dy - LastOp.dstRec.y)

\* ------------------------------------------------------------------------
\* Specification SpecLine: one ImageDrawLine on a blank image
\* ------------------------------------------------------------------------
MaxLineSide == 4    \* images that lines are drawn on are at most MaxLineSide x MaxLineSide pixels

LineFormats == {PIXELFORMAT_UNCOMPRESSED_GRAYSCALE, PIXELFORMAT_UNCOMPRESSED_R8G8B8A8}

\* an image of zero bytes, as GenImageColor(width, height, BLANK) reformatted
BlankImage(width, height, format) ==
    Image(ZeroBytes(GetPixelDataSize(width, height, format)), width, height, format, 1)

InitLine ==
    /\ image \in {BlankImage(w, h, f) : w \in 1..MaxLineSide, h \in 1..MaxLineSide, f \in LineFormats}
    /\ old = <<>> /\ ops = <<>> /\ ub = FALSE
    /\ sz = IdleRec /\ px = IdleRec /\ bl = IdleRec /\ heap = IdleRec /\ game = IdleRec

CallImageDrawLine ==
    /\ ops = <<>>
    /\ \E startPosX \in (-1)..MaxLineSide, startPosY \in (-1)..MaxLineSide,
          endPosX \in (-1)..MaxLineSide, endPosY \in (-1)..MaxLineSide :
          /\ image' = ImageDrawLine(image, startPosX, startPosY, endPosX, endPosY, WHITE)
          /\ ops' = <<[name |-> "ImageDrawLine", startPosX |-> startPosX, startPosY |-> startPosY,
                       endPosX |-> endPosX, endPosY |-> endPosY, color |-> WHITE]>>
    /\ old' = <<image>>
    /\ UNCHANGED <<sz, px, bl, ub, heap, game>>

NextLine == CallImageDrawLine

SpecLine == InitLine /\ [][NextLine]_vars

\* the pixels of an image that differ from those of the image before
Painted(img, before) ==
    {p \in (0..(before.width - 1)) \X (0..(before.height - 1)) :
        PixelAt(img, p[1], p[2]) # PixelAt(before, p[1], p[2])}

\* a pixel set that holds exactly one pixel for each major coordinate in
\* lo..hi, the minor coordinate changing by at most 1 from one to the next;
\* major = 1 for X, 2 for Y
OnePerStep(pixels, major, lo, hi) ==
    /\ \A p \in pixels : (p[major] >= lo) /\ (p[major] <= hi)
    /\ \A u \in lo..hi : Cardinality({p \in pixels : p[major] = u}) = 1
    /\ \A p \in pixels, q \in pixels :
          (q[major] = p[major] + 1) => (Abs(q[3 - major] - p[3 - major]) <= 1)

\* C22: ImageDrawLine between two points inside the image paints the start
\* pixel and the end pixel and exactly max(|dx|,|dy|)+1 pixels, one per unit
\* step along the major axis, each at most 1 away from the previous one in
\* the minor coordinate; no other pixel is modified.
C22_LinePath ==
    (   /\ Applied("ImageDrawLine")
        /\ InBounds(Before, LastOp.startPosX, LastOp.startPosY)
        /\ InBounds(Before, LastOp.endPosX, LastOp.endPosY)) =>
        /\ <<LastOp.startPosX, LastOp.startPosY>> \in Painted(image, Before)
        /\ <<LastOp.endPosX, LastOp.endPosY>> \in Painted(image, Before)
        /\ Cardinality(Painted(image, Before))
               = Max(Abs(LastOp.endPosX - LastOp.startPosX), Abs(LastOp.endPosY - LastOp.startPosY)) + 1
        /\ IF Abs(LastOp.endPosY - LastOp.startPosY) < Abs(LastOp.endPosX - LastOp.startPosX)
           THEN OnePerStep(Painted(image, Before), 1, Min(LastOp.startPosX, LastOp.endPosX),
                           Max(LastOp.startPosX, LastOp.endPosX))
           ELSE OnePerStep(Painted(image, Before), 2, Min(LastOp.startPosY, LastOp.endPosY),
                           Max(LastOp.startPosY, LastOp.endPosY))
        /\ (image.width = Before.width) /\ (image.height = Before.height)
        /\ (image.format = Before.format) /\ (Len(image.data) = Len(Before.data))

\* a shallow line drawn from right to left, rising by one pixel over three steps
C22_Witness ==
    /\ Applied("ImageDrawLine")
    /\ (Before.width = MaxLineSide) /\ (Before.height = MaxLineSide)
    /\ (LastOp.startPosX = 3) /\ (LastOp.startPosY = 1)
    /\ (LastOp.endPosX = 0) /\ (LastOp.endPosY = 2)
    /\ Cardinality(Painted(image, Before)) = 4
    /\ {<<3, 1>>, <<0, 2>>} \subseteq Painted(image, Before)

\* ------------------------------------------------------------------------
\* Specification SpecCircle: one ImageDrawCircle on a blank image
\* ------------------------------------------------------------------------
MaxRadius == 3      \* circles have a radius of at most MaxRadius

\* images wide enough to hold a circle of radius MaxRadius, and smaller ones
CircleSides == {1, MaxRadius + 1, 2 * MaxRadius + 1}

InitCircle ==
    /\ image \in {BlankImage(w, h, f) : w \in CircleSides, h \in CircleSides, f \in LineFormats}
    /\ old = <<>> /\ ops = <<>> /\ ub = FALSE
    /\ sz = IdleRec /\ px = IdleRec /\ bl = IdleRec /\ heap = IdleRec /\ game = IdleRec

CallImageDrawCircle ==
    /\ ops = <<>>
    /\ \E centerX \in (-1)..(2 * MaxRadius + 1), centerY \in (-1)..(2 * MaxRadius + 1),
          radius \in 0..MaxRadius :
          /\ image' = ImageDrawCircle(image, centerX, centerY, radius, WHITE, 0).image
          /\ ub' = ImageDrawCircle(image, centerX, centerY, radius, WHITE, 0).ub
          /\ ops' = <<[name |-> "ImageDrawCircle", centerX |-> centerX, centerY |-> centerY,
                       radius |-> radius, color |-> WHITE]>>
    /\ old' = <<image>>
    /\ UNCHANGED <<sz, px, bl, heap, game>>

NextCircle == CallImageDrawCircle

SpecCircle == InitCircle /\ [][NextCircle]_vars

\* the circle of a call lies inside the image
CircleInside(img, o) ==
    /\ InBounds(img, o.centerX - o.radius, o.centerY - o.radius)
    /\ InBounds(img, o.centerX + o.radius, o.centerY + o.radius)

\* C23: the pixel set painted by ImageDrawCircle is mirrored across both
\* axes through the centre: (centerX+i, centerY+j) is painted if and only if
\* (centerX-i, centerY+j) and (centerX+i, centerY-j) are, for every radius
\* >= 0 with the circle inside the image.
C23_CircleMirrored ==
    (Applied("ImageDrawCircle") /\ CircleInside(Before, LastOp)) =>
        /\ ~ub
        /\ \A i \in (-LastOp.radius)..LastOp.radius, j \in (-LastOp.radius)..LastOp.radius :
              /\ (<<LastOp.centerX + i, LastOp.centerY + j>> \in Painted(image, Before))
                     <=> (<<LastOp.centerX - i, LastOp.centerY + j>> \in Painted(image, Before))
              /\ (<<LastOp.centerX + i, LastOp.centerY + j>> \in Painted(image, Before))
                     <=> (<<LastOp.centerX + i, LastOp.centerY - j>> \in Painted(image, Before))

\* ------------------------------------------------------------------------
\* Specification SpecHeap: one operation, run statement by statement on a heap
\*   heap.pc      the statements still to run
\*   heap.reg     the block each pointer variable refers to (0 is NULL)
\*   heap.live    the allocated blocks; block 1 is the buffer of the image on
\*                entry, block 2 a buffer of the caller (the source of ImageDraw)
\*   heap.freed   the blocks that have been freed
\*   heap.faults  what went wrong so far
\*   heap.failed  how many allocations returned NULL; none does unless heap.mayFail
\*   heap.out     the pointer variables handed back to the caller
\* ------------------------------------------------------------------------
HeapFormats == {PIXELFORMAT_UNCOMPRESSED_GRAYSCALE, PIXELFORMAT_UNCOMPRESSED_R5G6B5,
                PIXELFORMAT_UNCOMPRESSED_R8G8B8A8, PIXELFORMAT_UNCOMPRESSED_R32,
                PIXELFORMAT_COMPRESSED_DXT1_RGB}

HeapImages == SampleImages(1..MaxDim, HeapFormats, {1, 2}, {133}) \cup {NoImage}

\* the sources ImageDraw is given: one that is row-copied or resampled as it
\* is, one that ImageResize takes through LoadImageColors, and an empty one
HeapSources == SampleImages({1, MaxDim}, {PIXELFORMAT_UNCOMPRESSED_GRAYSCALE, PIXELFORMAT_UNCOMPRESSED_R5G6B5},
                            {1}, {170}) \cup {NoImage}

\* the block a pointer variable refers to
Ptr(v) == IF v \in DOMAIN heap.reg THEN heap.reg[v] ELSE 0

InitHeap ==
    /\ image \in HeapImages
    /\ \E mayFail \in BOOLEAN :
          heap = [pc |-> <<>>, reg |-> ("image.data" :> (IF image.data = NULL THEN 0 ELSE 1)),
                  live |-> (IF image.data = NULL THEN {2} ELSE {1, 2}), freed |-> {}, next |-> 3,
                  faults |-> {}, failed |-> 0, mayFail |-> mayFail, out |-> {}]
    /\ old = <<>> /\ ops = <<>> /\ ub = FALSE
    /\ sz = IdleRec /\ px = IdleRec /\ bl = IdleRec /\ game = IdleRec

\* each operation is entered once: its statements are loaded
EnterImageCopy ==
    /\ ops = <<>>
    /\ ops' = << [name |-> "ImageCopy"] >>
    /\ heap' = [heap EXCEPT !.pc = ImageCopyMem("newImage.data", "image.data", image),
                            !.out = {"newImage.data"}]
    /\ UNCHANGED <<sz, px, bl, image, old, ub, game>>

EnterImageFromImage ==
    /\ ops = <<>>
    /\ \E rec \in {Rectangle(0, 0, 1, 1), Rectangle(0, 0, image.width, image.height)} :
          /\ ops' = << [name |-> "ImageFromImage", rec |-> rec] >>
          /\ heap' = [heap EXCEPT !.pc = ImageFromImageMem("result.data", "image.data", image, rec),
                                  !.out = {"result.data"}]
    /\ UNCHANGED <<sz, px, bl, image, old, ub, game>>

EnterLoadImageColors ==
    /\ ops = <<>>
    /\ ops' = << [name |-> "LoadImageColors"] >>
    /\ heap' = [heap EXCEPT !.pc = LoadImageColorsMem("pixels", "image.data", image),
                            !.out = {"pixels"}]
    /\ UNCHANGED <<sz, px, bl, image, old, ub, game>>

EnterImageCrop ==
    /\ ops = <<>>
    /\ \E x \in {-1, 0, 1}, size \in 1..MaxDim :
          /\ ops' = << [name |-> "ImageCrop", crop |-> Rectangle(x, 0, size, size)] >>
          /\ heap' = [heap EXCEPT !.pc = ImageCropMem("image.data", image, Rectangle(x, 0, size, size))]
    /\ UNCHANGED <<sz, px, bl, image, old, ub, game>>

EnterImageFormat ==
    /\ ops = <<>>
    /\ \E newFormat \in {0} \cup HeapFormats :
          /\ ops' = << [name |-> "ImageFormat", newFormat |-> newFormat] >>
          /\ heap' = [heap EXCEPT !.pc = ImageFormatMem("image.data", image, newFormat)]
    /\ UNCHANGED <<sz, px, bl, image, old, ub, game>>

EnterImageResizeNN ==
    /\ ops = <<>>
    /\ \E newWidth \in 1..MaxDim, newHeight \in 1..MaxDim :
          /\ ops' = << [name |-> "ImageResizeNN", newWidth |-> newWidth, newHeight |-> newHeight] >>
          /\ heap' = [heap EXCEPT !.pc = ImageResizeNNMem("image.data", image, newWidth, newHeight)]
    /\ UNCHANGED <<sz, px, bl, image, old, ub, game>>

EnterImageResize ==
    /\ ops = <<>>
    /\ \E newWidth \in 1..MaxDim, newHeight \in 1..MaxDim :
          /\ ops' = << [name |-> "ImageResize", newWidth |-> newWidth, newHeight |-> newHeight] >>
          /\ heap' = [heap EXCEPT !.pc = ImageResizeMem("image.data", image, newWidth, newHeight)]
    /\ UNCHANGED <<sz, px, bl, image, old, ub, game>>

EnterImageResizeCanvas ==
    /\ ops = <<>>
    /\ \E newWidth \in 1..MaxDim, newHeight \in 1..MaxDim, offsetX \in {-1, 0, 1} :
          /\ ops' = << [name |-> "ImageResizeCanvas", newWidth |-> newWidth, newHeight |-> newHeight,
                        offsetX |-> offsetX, offsetY |-> 0] >>
          /\ heap' = [heap EXCEPT !.pc = ImageResizeCanvasMem("image.data", image, newWidth, newHeight,
                                                             offsetX, 0)]
    /\ UNCHANGED <<sz, px, bl, image, old, ub, game>>

\* ImageDraw(&image, src, srcRec, dstRec, tint): src.data is block 2, or NULL
EnterImageDraw ==
    \E src \in HeapSources, x \in {-1, 0}, width \in 1..MaxDim :
        /\ ops = <<>>
        /\ ops' = << [name |-> "ImageDraw", src |-> src,
                      srcRec |-> Rectangle(0, 0, src.width, src.height),
                      dstRec |-> Rectangle(x, 0, width, src.height)] >>
        /\ heap' = [heap EXCEPT !.pc = ImageDrawMem("image.data", "src.data", image, src,
                                                   Rectangle(0, 0, src.width, src.height),
                                                   Rectangle(x, 0, width, src.height)),
                                !.reg = ("src.data" :> (IF src.data = NULL THEN 0 ELSE 2)) @@ heap.reg]
        /\ UNCHANGED <<sz, px, bl, image, old, ub, game>>

\* the statement to run next
Stmt == Head(heap.pc)
At(op) == (heap.pc # <<>>) /\ (Stmt.op = op)

StepMalloc ==
    /\ At("malloc")
    /\ heap' = [heap EXCEPT !.pc = Tail(heap.pc), !.reg = (Stmt.var :> heap.next) @@ heap.reg,
                            !.live = heap.live \cup {heap.next}, !.next = heap.next + 1]
    /\ UNCHANGED <<sz, px, bl, image, old, ops, ub, game>>

StepMallocFails ==
    /\ At("malloc")
    /\ heap.mayFail
    /\ heap' = [heap EXCEPT !.pc = Tail(heap.pc), !.reg = (Stmt.var :> 0) @@ heap.reg,
                            !.failed = heap.failed + 1]
    /\ UNCHANGED <<sz, px, bl, image, old, ops, ub, game>>

\* free(NULL) does nothing
StepFree ==
    /\ At("free")
    /\ heap' = [heap EXCEPT !.pc = Tail(heap.pc),
                            !.live = heap.live \ {Ptr(Stmt.var)},
                            !.freed = IF Ptr(Stmt.var) \in heap.live THEN heap.freed \cup {Ptr(Stmt.var)}
                                      ELSE heap.freed,
                            !.faults = IF Ptr(Stmt.var) \in heap.freed
                                       THEN heap.faults \cup {"double free"} ELSE heap.faults]
    /\ UNCHANGED <<sz, px, bl, image, old, ops, ub, game>>

StepUse ==
    /\ At("use")
    /\ heap' = [heap EXCEPT !.pc = Tail(heap.pc),
                            !.faults = IF Ptr(Stmt.var) = 0 THEN heap.faults \cup {"null access"}
                                       ELSE IF Ptr(Stmt.var) \in heap.freed
                                       THEN heap.faults \cup {"use after free"}
                                       ELSE heap.faults]
    /\ UNCHANGED <<sz, px, bl, image, old, ops, ub, game>>

StepMove ==
    /\ At("move")
    /\ heap' = [heap EXCEPT !.pc = Tail(heap.pc), !.reg = (Stmt.var :> Ptr(Stmt.from)) @@ heap.reg]
    /\ UNCHANGED <<sz, px, bl, image, old, ops, ub, game>>

StepSetNull ==
    /\ At("null")
    /\ heap' = [heap EXCEPT !.pc = Tail(heap.pc), !.reg = (Stmt.var :> 0) @@ heap.reg]
    /\ UNCHANGED <<sz, px, bl, image, old, ops, ub, game>>

StepIfNotNull ==
    /\ At("ifnotnull")
    /\ heap' = [heap EXCEPT !.pc = IF Ptr(Stmt.var) # 0 THEN Stmt.body \o Tail(heap.pc)
                                   ELSE Tail(heap.pc)]
    /\ UNCHANGED <<sz, px, bl, image, old, ops, ub, game>>

NextHeap ==
    \/ EnterImageCopy
    \/ EnterImageFromImage
    \/ EnterLoadImageColors
    \/ EnterImageCrop
    \/ EnterImageFormat
    \/ EnterImageResizeNN
    \/ EnterImageResize
    \/ EnterImageResizeCanvas
    \/ EnterImageDraw
    \/ StepMalloc
    \/ StepMallocFails
    \/ StepFree
    \/ StepUse
    \/ StepMove
    \/ StepSetNull
    \/ StepIfNotNull

SpecHeap == InitHeap /\ [][NextHeap]_vars

\* the operation has returned
Returned == (ops # <<>>) /\ (heap.pc = <<>>)

\* the operations that replace the buffer of the image, and ImageDraw
Replacing == {"ImageCrop", "ImageFormat", "ImageResizeNN", "ImageResize", "ImageResizeCanvas", "ImageDraw"}

\* the blocks the caller holds when the operation has returned: its own
\* block 2, the buffer of the image, and what the operation handed back
Held == ({2, Ptr("image.data")} \cup {Ptr(v) : v \in heap.out}) \ {0}

\* C11: every operation that replaces an image's buffer frees the previous
\* buffer exactly once and frees every temporary array it allocated, and
\* ImageDraw frees its resampled source copy: when no allocation fails, no
\* block is freed twice or accessed after being freed or through NULL, and on
\* return (early exits included) the allocated blocks are exactly those the
\* caller holds, the image owning one live buffer; a replaced buffer has been freed.
C11_Ownership ==
    ((ops # <<>>) /\ (LastOp.name \in Replacing) /\ (heap.failed = 0)) =>
        /\ heap.faults = {}
        /\ Returned =>
              /\ heap.live = Held
              /\ (image.data # NULL) => (Ptr("image.data") \in heap.live)
              /\ ((image.data # NULL) /\ (Ptr("image.data") # 1)) => (1 \in heap.freed)

\* ImageResizeNN of an R5G6B5 image has returned: pixels, output and the
\* Vector4 array of the nested ImageFormat are freed, as is the old buffer,
\* and the image owns the buffer ImageFormat allocated
C11_Witness ==
    /\ Returned
    /\ LastOp.name = "ImageResizeNN"
    /\ image.format = PIXELFORMAT_UNCOMPRESSED_R5G6B5
    /\ heap.failed = 0
    /\ heap.freed = {1, 3, 4, 5}
    /\ Ptr("image.data") = 6
    /\ heap.live = {2, 6}

\* the operations that produce a buffer
Producing == {"ImageCopy", "ImageFromImage", "ImageCrop", "ImageFormat", "ImageResizeNN", "ImageResize",
              "ImageResizeCanvas", "LoadImageColors"}

\* C12: every buffer-producing operation checks the result of each
\* allocation: nothing is read or written through a NULL pointer, and when an
\* allocation has failed the operation returns an empty result (NULL data) or
\* leaves the image with the buffer it had.
C12_AllocChecked ==
    ((ops # <<>>) /\ (LastOp.name \in Producing)) =>
        /\ "null access" \notin heap.faults
        /\ (Returned /\ (heap.failed > 0)) =>
              /\ \A v \in heap.out : Ptr(v) = 0
              /\ (heap.out = {}) => (Ptr("image.data") \in {0, 1} \ heap.freed)

\* ------------------------------------------------------------------------
\* The game: main() of the attack-breaker clone
\* ------------------------------------------------------------------------
\* Angles are counted in sixths of PI, so that PI/3 and PI/2 are both whole.
\* A coordinate <<a, b>> stands for (a + b*sqrt(3))/4: every position the
\* ball reaches from (300,300) in steps of cos(velAngle)*SPEED and
\* sin(velAngle)*SPEED is of this form.  The rounding of the float variables
\* (ball.x, ball.y, velAngle) is left out.
SCREEN_WIDTH == 854
SCREEN_HEIGHT == 480
BLOCK_WIDTH == 40
BLOCK_HEIGHT == 20

\* PI/n, for n a divisor of 6
PiOver(n) == 6 \div n

Coord(n) == <<4 * n, 0>>
CoordAdd(p, q) == <<p[1] + q[1], p[2] + q[2]>>

\* a + b*sqrt(3) > 0
CoordPositive(p) ==
    LET a == p[1]
        b == p[2]
    IN  IF b = 0 THEN a > 0
        ELSE IF (a >= 0) /\ (b > 0) THEN TRUE
        ELSE IF (a <= 0) /\ (b < 0) THEN FALSE
        ELSE IF a > 0 THEN a * a > 3 * b * b
        ELSE 3 * b * b > a * a

CoordLess(p, q) == CoordPositive(<<q[1] - p[1], q[2] - p[2]>>)

\* a Rectangle of whole coordinates
GameRec(x, y, width, height) == Rectangle(Coord(x), Coord(y), Coord(width), Coord(height))

\* cos(velAngle)*SPEED and sin(velAngle)*SPEED, SPEED being 8/16
CosSpeed(velAngle) ==
    LET k == velAngle % 12
    IN  CASE k = 0 -> <<2, 0>>
          [] k \in {1, 11} -> <<0, 1>>
          [] k \in {2, 10} -> <<1, 0>>
          [] k \in {3, 9} -> <<0, 0>>
          [] k \in {4, 8} -> <<-1, 0>>
          [] k \in {5, 7} -> <<0, -1>>
          [] k = 6 -> <<-2, 0>>

SinSpeed(velAngle) == CosSpeed(velAngle - PiOver(2))

CosPositive(velAngle) == CoordPositive(CosSpeed(velAngle))
CosNegative(velAngle) == CoordLess(CosSpeed(velAngle), Coord(0))
SinPositive(velAngle) == CoordPositive(SinSpeed(velAngle))
SinNegative(velAngle) == CoordLess(SinSpeed(velAngle), Coord(0))

\* raylib's CheckCollisionRecs: the rectangles overlap, edges excluded
CheckCollisionRecs(rec1, rec2) ==
    /\ CoordLess(rec1.x, CoordAdd(rec2.x, rec2.width))
    /\ CoordLess(rec2.x, CoordAdd(rec1.x, rec1.width))
    /\ CoordLess(rec1.y, CoordAdd(rec2.y, rec2.height))
    /\ CoordLess(rec2.y, CoordAdd(rec1.y, rec1.height))

top == GameRec(0, -10, SCREEN_WIDTH, 10)
bottom == GameRec(0, SCREEN_HEIGHT, SCREEN_WIDTH, 10)
left == GameRec(-10, 0, 10, SCREEN_HEIGHT)
right == GameRec(SCREEN_WIDTH, 0, 10, SCREEN_HEIGHT)

\* the ball and the paddle as rectangles
BallRec(ball) == Rectangle(ball.x, ball.y, Coord(25), Coord(25))
PaddleRec(paddle) == GameRec(paddle.x, 460, 100, 20)

\* the slots the nested loops over x < 17, y < 6 fill, n counting up
GridSlots == {(x * 6) + y : x \in 0..16, y \in 0..5}

\* blocks[n].rect
BlockRect(n) ==
    GameRec(40 + ((n \div 6) * (BLOCK_WIDTH + 5)), 50 + ((n % 6) * (BLOCK_HEIGHT + 5)),
            BLOCK_WIDTH, BLOCK_HEIGHT)

\* bt, bb, bl, br of a block
BlockTop(n) == [BlockRect(n) EXCEPT !.height = Coord(2)]
BlockBottom(n) == [BlockRect(n) EXCEPT !.y = CoordAdd(@, Coord(BLOCK_HEIGHT - 2)), !.height = Coord(2)]
BlockLeft(n) == [BlockRect(n) EXCEPT !.width = Coord(2)]
BlockRight(n) == [BlockRect(n) EXCEPT !.x = CoordAdd(@, Coord(BLOCK_WIDTH - 2)), !.width = Coord(2)]

\* mutant: the edges of the button count as inside
HoveringEdges(m) == (m.x >= 330) /\ (m.x <= 330 + 165) /\ (m.y >= 190) /\ (m.y <= 190 + 60)

\* hoveringPlayButton
Hovering(m) == (m.x > 330) /\ (m.x < 330 + 165) /\ (m.y > 190) /\ (m.y < 190 + 60)

\* mutant: rand()%2
BounceTurnRandom(r) == PiOver(2 + (r % 2))

\* PI/(2+rand()%1), r being what rand() returned
BounceTurn(r) == PiOver(2 + (r % 1))

\* mutant: the paddle turns the ball as the top wall does
TurnsUpPaddleAsTop(surface, velAngle) ==
    CASE surface = "bb" -> CosPositive(velAngle)
      [] surface = "bt" -> CosNegative(velAngle)
      [] surface = "br" -> SinNegative(velAngle)
      [] surface = "bl" -> SinPositive(velAngle)
      [] surface = "top" -> CosPositive(velAngle)
      [] surface = "bottom" -> CosNegative(velAngle)
      [] surface = "left" -> SinNegative(velAngle)
      [] surface = "right" -> SinPositive(velAngle)
      [] surface = "paddle" -> CosPositive(velAngle)

\* the test that selects velAngle += over velAngle -= at each surface
TurnsUp(surface, velAngle) ==
    CASE surface = "bb" -> CosPositive(velAngle)
      [] surface = "bt" -> CosNegative(velAngle)
      [] surface = "br" -> SinNegative(velAngle)
      [] surface = "bl" -> SinPositive(velAngle)
      [] surface = "top" -> CosPositive(velAngle)
      [] surface = "bottom" -> CosNegative(velAngle)
      [] surface = "left" -> SinNegative(velAngle)
      [] surface = "right" -> SinPositive(velAngle)
      [] surface = "paddle" -> CosNegative(velAngle)

\* what a block strip adds to velAngle
BlockTurn(surface, velAngle) == IF TurnsUp(surface, velAngle) THEN PiOver(2) ELSE -PiOver(2)

\* what a wall or the paddle adds to velAngle, r being what rand() returned
WallTurn(surface, velAngle, r) == IF TurnsUp(surface, velAngle) THEN BounceTurn(r) ELSE -BounceTurn(r)

\* velAngle += turn, recorded with the surface that was hit
Bounced(g, surface, turn) ==
    [g EXCEPT !.velAngle = @ + turn,
              !.bounces = Append(@, [surface |-> surface, before |-> g.velAngle,
                                     after |-> g.velAngle + turn])]

\* mutant: a broken block is not counted
HitBlockUncounted(g, ballRec, n) ==
    LET b == [g EXCEPT !.broken[n] = TRUE, !.hits = @ \cup {n}]
        quiet == [b EXCEPT !.cooldownCollision = 0]
    IN  IF CheckCollisionRecs(ballRec, BlockBottom(n)) THEN Bounced(quiet, "bb", BlockTurn("bb", b.velAngle))
        ELSE IF CheckCollisionRecs(ballRec, BlockTop(n)) THEN Bounced(quiet, "bt", BlockTurn("bt", b.velAngle))
        ELSE IF CheckCollisionRecs(ballRec, BlockRight(n)) THEN Bounced(quiet, "br", BlockTurn("br", b.velAngle))
        ELSE IF CheckCollisionRecs(ballRec, BlockLeft(n)) THEN Bounced(quiet, "bl", BlockTurn("bl", b.velAngle))
        ELSE b

\* the body of the if at line 121 for block n
HitBlock(g, ballRec, n) ==
    LET b == [g EXCEPT !.broken[n] = TRUE, !.blockCount = @ - 1, !.hits = @ \cup {n}]
        quiet == [b EXCEPT !.cooldownCollision = 0]
    IN  IF CheckCollisionRecs(ballRec, BlockBottom(n)) THEN Bounced(quiet, "bb", BlockTurn("bb", b.velAngle))
        ELSE IF CheckCollisionRecs(ballRec, BlockTop(n)) THEN Bounced(quiet, "bt", BlockTurn("bt", b.velAngle))
        ELSE IF CheckCollisionRecs(ballRec, BlockRight(n)) THEN Bounced(quiet, "br", BlockTurn("br", b.velAngle))
        ELSE IF CheckCollisionRecs(ballRec, BlockLeft(n)) THEN Bounced(quiet, "bl", BlockTurn("bl", b.velAngle))
        ELSE b

\* the slots the loop over the blocks enters the if for: the ball does not
\* move during the loop and a block's test reads that block only
BlocksHit(g, ballRec) ==
    {n \in 0..255 : g.blockSlots[n] /\ (g.broken[n] = FALSE) /\ CheckCollisionRecs(ballRec, BlockRect(n))}

RECURSIVE BlockLoop(_, _, _)
\* the loop over the blocks, in the order of the slots
BlockLoop(g, ballRec, hits) ==
    IF hits = {} THEN g
    ELSE LET n == CHOOSE m \in hits : \A o \in hits : m <= o
         IN  BlockLoop(HitBlock(g, ballRec, n), ballRec, hits \ {n})

\* if (CheckCollisionRecs(ball, rec) && cooldownCollision != id) { ... }:
\* the outcomes, one for each value rand() may return
WallBounce(g, ballRec, rec, id, surface) ==
    IF CheckCollisionRecs(ballRec, rec) /\ (g.cooldownCollision # id)
    THEN {Bounced([g EXCEPT !.cooldownCollision = id], surface, WallTurn(surface, g.velAngle, r)) :
             r \in 0..MaxRand}
    ELSE {g}

\* the five ifs at lines 169-213, one after the other
Walls(g, ballRec) ==
    LET s1 == WallBounce(g, ballRec, top, 1, "top")
        s2 == UNION {WallBounce(t, ballRec, bottom, 2, "bottom") : t \in s1}
        s3 == UNION {WallBounce(t, ballRec, left, 3, "left") : t \in s2}
        s4 == UNION {WallBounce(t, ballRec, right, 4, "right") : t \in s3}
    IN  UNION {WallBounce(t, ballRec, PaddleRec(t.paddle), 5, "paddle") : t \in s4}

\* ------------------------------------------------------------------------
\* Specification SpecGame: the frames of the main loop; a frame of the menu
\* is one step, a frame of play is 16 steps, one for each pass of the loop
\* at line 108
\* ------------------------------------------------------------------------
\* where the mouse is seen in the menu, and during play
MenuMouse == {[x |-> 330, y |-> 220], [x |-> 331, y |-> 191], [x |-> 494, y |-> 249],
              [x |-> 495, y |-> 220], [x |-> 400, y |-> 190], [x |-> 400, y |-> 250]}
PlayMouse == {[x |-> 100, y |-> 470], [x |-> 400, y |-> 470]}

InitGame ==
    /\ game = [state |-> 0,
               mousePosition |-> [x |-> -100, y |-> -100],
               hoveringPlayButton |-> FALSE,
               ball |-> [x |-> Coord(300), y |-> Coord(300)],
               velAngle |-> PiOver(3),
               paddle |-> [x |-> 50],
               blockSlots |-> [n \in 0..255 |-> n \in GridSlots],
               broken |-> [n \in 0..255 |-> IF n \in GridSlots THEN FALSE ELSE "indeterminate"],
               blockCount |-> Cardinality(GridSlots),
               cooldownCollision |-> 0,
               i |-> 0,
               down |-> FALSE,       \* IsMouseButtonDown(MOUSE_BUTTON_LEFT) as last read
               played |-> 0,         \* frames of play completed
               hits |-> {},          \* the blocks broken in the latest pass
               bounces |-> <<>>]     \* the changes of velAngle in the latest pass
    /\ sz = IdleRec /\ px = IdleRec /\ bl = IdleRec /\ ImageIdle

\* a frame with state == 0
MenuFrame ==
    /\ game.state = 0
    /\ \E m \in MenuMouse, down \in BOOLEAN :
          game' = [game EXCEPT !.mousePosition = m,
                               !.hoveringPlayButton = Hovering(m),
                               !.down = down,
                               !.state = IF Hovering(m) /\ down THEN 1 ELSE @]
    /\ UNCHANGED <<sz, px, bl, imgVars>>

\* one pass of the loop at line 108 in a frame with state == 1; the mouse
\* is polled between frames, so the 16 passes of a frame read one position
SubStep ==
    /\ game.state = 1
    /\ game.played < MaxFrames
    /\ \E m \in (IF game.i = 0 THEN PlayMouse ELSE {game.mousePosition}) :
          LET ball == [x |-> CoordAdd(game.ball.x, CosSpeed(game.velAngle)),
                       y |-> CoordAdd(game.ball.y, SinSpeed(game.velAngle))]
              moved == [game EXCEPT !.mousePosition = m,
                                    !.paddle.x = m.x - (100 \div 2),
                                    !.ball = ball,
                                    !.bounces = <<>>,
                                    !.hits = {},
                                    !.i = (@ + 1) % 16,
                                    !.played = IF game.i = 15 THEN @ + 1 ELSE @]
              blocked == BlockLoop(moved, BallRec(ball), BlocksHit(moved, BallRec(ball)))
          IN  game' \in Walls(blocked, BallRec(ball))
    /\ UNCHANGED <<sz, px, bl, imgVars>>

NextGame == MenuFrame \/ SubStep

SpecGame == InitGame /\ [][NextGame]_vars

\* the slots in use whose block is not broken
Unbroken(g) == {n \in 0..255 : g.blockSlots[n] /\ (g.broken[n] = FALSE)}

\* the slots in use whose block is broken
Broken(g) == {n \in 0..255 : g.blockSlots[n] /\ (g.broken[n] = TRUE)}

\* C27: blockCount is the number of slots in use whose block is not broken,
\* after initialisation and after every pass; it starts at 102, goes down by
\* one for each block in the pass that breaks it, never goes up and never
\* below 0; a broken block stays broken and is not hit again.
C27_BlockCount ==
    /\ game.blockCount = 102
    /\ [](/\ game.blockCount = Cardinality(Unbroken(game))
          /\ game.blockCount >= 0)
    /\ [][/\ game'.hits \cap Broken(game) = {}
          /\ Broken(game) \subseteq Broken(game')
          /\ game'.blockSlots = game.blockSlots
          /\ game'.blockCount = game.blockCount - Cardinality(Broken(game') \ Broken(game))
          /\ (Broken(game') # Broken(game)) => (game'.hits = Broken(game') \ Broken(game))
          /\ game'.blockCount <= game.blockCount]_vars

\* two blocks are broken in one pass
C27_Witness ==
    /\ game.state = 1
    /\ Cardinality(game.hits) = 2
    /\ game.blockCount = 100
    /\ Cardinality(Broken(game)) = 2

\* C28: state is 0 or 1; it goes from 0 to 1 exactly in a frame that sees
\* the mouse strictly inside the Play button (330 < x < 495, 190 < y < 250)
\* with the left button down, and never from 1 to 0; while state is 0 the
\* ball, velAngle, the paddle, the blocks, blockCount and cooldownCollision
\* do not change.
C28_MenuToPlay ==
    /\ [](game.state \in {0, 1})
    /\ [][/\ (game.state = 1) => (game'.state = 1)
          /\ (game.state = 0) =>
                /\ (game'.state = 1) <=>
                      /\ 330 < game'.mousePosition.x /\ game'.mousePosition.x < 495
                      /\ 190 < game'.mousePosition.y /\ game'.mousePosition.y < 250
                      /\ game'.down
                /\ game'.ball = game.ball
                /\ game'.velAngle = game.velAngle
                /\ game'.paddle = game.paddle
                /\ game'.blockSlots = game.blockSlots
                /\ game'.broken = game.broken
                /\ game'.blockCount = game.blockCount
                /\ game'.cooldownCollision = game.cooldownCollision]_vars

\* play has just begun, after a frame of the menu that did not begin it
C28_Witness ==
    /\ game.state = 1
    /\ game.mousePosition = [x |-> 494, y |-> 249]
    /\ game.down
    /\ game.hoveringPlayButton
    /\ game.played = 0 /\ game.i = 0
    /\ game.ball = [x |-> Coord(300), y |-> Coord(300)]

\* the four directions PI/3 + k*PI/2, as cos(velAngle)*SPEED, sin(velAngle)*SPEED
FourDirections == {<< <<1, 0>>, <<0, 1>> >>, << <<0, -1>>, <<1, 0>> >>,
                   << <<-1, 0>>, <<0, -1>> >>, << <<0, 1>>, <<-1, 0>> >>}

\* C29: velAngle - PI/3 is always a whole multiple of PI/2: every bounce off
\* a wall, the paddle or a block changes velAngle by exactly +PI/2 or -PI/2
\* (rand()%1 is 0), so the ball moves in one of four directions only.
C29_QuarterTurns ==
    /\ (game.velAngle - PiOver(3)) % PiOver(2) = 0
    /\ \A j \in 1..Len(game.bounces) :
          (game.bounces[j].after - game.bounces[j].before) \in {PiOver(2), -PiOver(2)}
    /\ <<CosSpeed(game.velAngle), SinSpeed(game.velAngle)>> \in FourDirections

\* two blocks turn the ball in one pass, which leaves velAngle a full turn
\* below PI/3
C29_Witness ==
    /\ Len(game.bounces) = 2
    /\ Cardinality(game.hits) = 2
    /\ game.velAngle = PiOver(3) - (4 * PiOver(2))

\* ------------------------------------------------------------------------
\* Specification SpecBounce: one bounce, off each surface, of a ball moving
\* in each of the directions PI/3 + k*PI/2
\* ------------------------------------------------------------------------
BlockStrips == {"bb", "bt", "br", "bl"}
Surfaces == BlockStrips \cup {"top", "bottom", "left", "right", "paddle"}

InitBounce ==
    /\ game \in [pc : {"before"}, surface : Surfaces,
                 velAngle : {PiOver(3) + (k * PiOver(2)) : k \in (-MaxTurns)..MaxTurns},
                 bounces : {<<>>}]
    /\ sz = IdleRec /\ px = IdleRec /\ bl = IdleRec /\ ImageIdle

\* the velAngle += / -= of the surface
ApplyBounce ==
    /\ game.pc = "before"
    /\ \E r \in 0..MaxRand :
          game' = [Bounced(game, game.surface,
                           IF game.surface \in BlockStrips THEN BlockTurn(game.surface, game.velAngle)
                           ELSE WallTurn(game.surface, game.velAngle, r))
                      EXCEPT !.pc = "after"]
    /\ UNCHANGED <<sz, px, bl, imgVars>>

NextBounce == ApplyBounce

SpecBounce == InitBounce /\ [][NextBounce]_vars

\* the velocity points away from the surface
AwayFrom(surface, velAngle) ==
    CASE surface \in {"top", "bb"} -> SinPositive(velAngle)
      [] surface \in {"bottom", "paddle", "bt"} -> SinNegative(velAngle)
      [] surface \in {"left", "br"} -> CosPositive(velAngle)
      [] surface \in {"right", "bl"} -> CosNegative(velAngle)

\* C30: right after a bounce the velocity points away from the surface that
\* was hit, whatever the direction before: down (sin > 0) after the top wall
\* or a block's bottom strip, up (sin < 0) after the bottom wall, the paddle
\* or a block's top strip, right (cos > 0) after the left wall or a block's
\* right strip, left (cos < 0) after the right wall or a block's left strip.
C30_BounceAway ==
    \A j \in 1..Len(game.bounces) :
        /\ game.bounces[j].surface \in Surfaces
        /\ AwayFrom(game.bounces[j].surface, game.bounces[j].after)

\* the paddle is hit by a ball that was moving up and to the right
C30_Witness ==
    /\ game.pc = "after"
    /\ game.surface = "paddle"
    /\ Len(game.bounces) = 1
    /\ SinNegative(game.bounces[1].before) /\ CosPositive(game.bounces[1].before)
    /\ SinNegative(game.velAngle) /\ CosNegative(game.velAngle)

====
